---- MODULE Spec2Model ----
(***************************************************************************)
(* A model of the reconciliation and execution core of VibesAndFolders:    *)
(* the file service (internal/app/file_service.go), the validator, the     *)
(* index service with its transactions, snapshots and change scanner, the  *)
(* index orchestrator, the execution orchestrator and the undo built by    *)
(* the main window.                                                        *)
(*                                                                         *)
(* Paths are absolute and cleaned: a path is the sequence of its segments, *)
(* <<>> is "/".  The filesystem is a function from a finite, prefix-closed *)
(* universe of paths to nodes.                                             *)
(***************************************************************************)
EXTENDS Integers, Sequences, FiniteSets, TLC

VARIABLES
    fs,            \* the directory tree on disk: path -> node
    index,         \* table indexed_files: path -> row (or NoRow)
    tx,            \* DefaultIndexService.tx # nil
    phase,         \* position of the execution flow / last call of the store
    req,           \* the ExecutionRequest of the last ExecuteOrganization
    result,        \* the ExecutionResult it returned
    lastSuccessfulResults, \* MainWindow.lastSuccessfulResults
    fs0,           \* history: the tree before the batch
    index0,        \* history: the index before the batch
    updateFailed,  \* history: UpdateIndexAfterOperations returned an error
    snapshot,      \* the IndexSnapshot held by the caller
    lastErr,       \* error returned by the last store call ("" is nil)
    changes,       \* the DirectoryChanges the last call returned (none: empty)
    atBegin,       \* history: the index when the open transaction began
    atSnapshot,    \* history: the index when the snapshot was taken
    scan,          \* history: the arguments of the last call, when it scanned
    analyzed,      \* history: the analyzer answered in the last call of IndexDirectory
    buffer,        \* processStream: the content accumulated since the last newline
    streamOps,     \* processStream: its list operations, which it returns
    delivered,     \* the operations passed to the onOperation callback, in order
    text,          \* history: the content of the chunks decoded so far
    dropped,       \* history: an undecodable chunk was skipped
    stamp,         \* history: the modification time each row was indexed with, in ticks
    lastCall,      \* the last call of a function of its arguments alone: arguments, result
    workers        \* the goroutines that share the index service, and its field tx

vars == <<fs, index, tx, phase, req, result, lastSuccessfulResults, fs0, index0,
          updateFailed, snapshot, lastErr, changes, atBegin, atSnapshot, scan, analyzed,
          buffer, streamOps, delivered, text, dropped, stamp, lastCall, workers>>

\* the state of a running processStream
streamVars == <<buffer, streamOps, delivered, text, dropped>>

---------------------------------------------------------------------------
(* Bounds of the model *)

\* longest batch handed to ExecuteOrganization
MaxOps == 2
\* symbolic links followed while resolving one path before ELOOP
MaxSymlinkHops == 3
\* goroutines that run ExecuteOrganization on one index service
NumWorkers == 2

---------------------------------------------------------------------------
(* Paths *)

Root == <<>>
BasePath == <<"w">>

\* The path universe: prefix-closed, all inside the base directory.
PathU ==
    { <<"w">>,
      <<"w", "a">>,
      <<"w", "b">>,
      <<"w", "l">>,
      <<"w", "d">>, <<"w", "d", "a">>,
      <<"w", "n">>, <<"w", "n", "a">> }

\* filepath.Dir of a cleaned absolute path
Dir(p) == IF p = Root THEN Root ELSE SubSeq(p, 1, Len(p) - 1)

Base(p) == p[Len(p)]

IsPrefix(p, q) == Len(p) <= Len(q) /\ SubSeq(q, 1, Len(p)) = p

\* filepath.Clean on the segments of an absolute path: ".." removes the
\* segment before it (and nothing at the root), "." is dropped.
RECURSIVE CleanFrom(_, _)
CleanFrom(done, rest) ==
    IF rest = <<>> THEN done
    ELSE IF Head(rest) = ".." THEN CleanFrom(Dir(done), Tail(rest))
    ELSE IF Head(rest) = "." THEN CleanFrom(done, Tail(rest))
    ELSE CleanFrom(Append(done, Head(rest)), Tail(rest))

Clean(p) == CleanFrom(<<>>, p)

\* filepath.Join(dir, rel) for an absolute dir
Join(dir, rel) == Clean(dir \o rel)

RECURSIVE CommonLen(_, _)
CommonLen(p, q) ==
    IF p = <<>> \/ q = <<>> \/ Head(p) # Head(q) THEN 0
    ELSE 1 + CommonLen(Tail(p), Tail(q))

RECURSIVE Ups(_)
Ups(n) == IF n = 0 THEN <<>> ELSE <<"..">> \o Ups(n - 1)

\* filepath.Rel(basepath, targpath) for two cleaned absolute paths: it never
\* fails for them; the result "." is the empty sequence here.
Rel(basep, targ) ==
    LET c == CommonLen(basep, targ)
    IN  Ups(Len(basep) - c) \o SubSeq(targ, c + 1, Len(targ))

\* strings.HasPrefix(rel, ".."): the first segment is ".." or a name that
\* begins with two dots
HasDotDotPrefix(rel) == rel # <<>> /\ Head(rel) \in {"..", "..x"}

---------------------------------------------------------------------------
(* Filesystem nodes *)

NoTarget == [abs |-> FALSE, segs |-> <<>>]
None == [k |-> "none", id |-> 0, tgt |-> NoTarget, mt |-> 0, sz |-> 0]
DirNode == [k |-> "dir", id |-> 0, tgt |-> NoTarget, mt |-> 0, sz |-> 0]
FileNode(i, m) == [k |-> "file", id |-> i, tgt |-> NoTarget, mt |-> m, sz |-> i]
LinkNode(i, t) == [k |-> "link", id |-> i, tgt |-> t, mt |-> 0, sz |-> Len(t.segs)]
RelTarget(s) == [abs |-> FALSE, segs |-> s]

NodeAt(f, p) ==
    IF p = Root THEN DirNode
    ELSE IF p \in DOMAIN f THEN f[p]
    ELSE None

\* Path resolution as the kernel does it for stat(2)/lstat(2): cur is the
\* directory reached so far, rest the segments still to walk; the last
\* segment is followed through a link only when follow is set.
RECURSIVE Resolve(_, _, _, _, _)
Resolve(f, cur, rest, follow, fuel) ==
    IF rest = <<>> THEN [err |-> "", path |-> cur]
    ELSE IF Head(rest) = ".." THEN Resolve(f, Dir(cur), Tail(rest), follow, fuel)
    ELSE IF Head(rest) = "." THEN Resolve(f, cur, Tail(rest), follow, fuel)
    ELSE
      LET nxt == Append(cur, Head(rest))
          node == NodeAt(f, nxt)
          more == Tail(rest)
      IN  IF node.k = "none" THEN [err |-> "ENOENT", path |-> nxt]
          ELSE IF node.k = "link" /\ (more # <<>> \/ follow)
            THEN IF fuel = 0 THEN [err |-> "ELOOP", path |-> nxt]
                 ELSE Resolve(f, IF node.tgt.abs THEN Root ELSE cur,
                              node.tgt.segs \o more, follow, fuel - 1)
          ELSE IF more = <<>> THEN [err |-> "", path |-> nxt]
          ELSE IF node.k = "dir" THEN Resolve(f, nxt, more, follow, fuel)
          ELSE [err |-> "ENOTDIR", path |-> nxt]

\* os.Stat: follows links
Stat(f, p) == Resolve(f, Root, p, TRUE, MaxSymlinkHops)
\* os.Lstat: does not follow a link in the last segment
Lstat(f, p) == Resolve(f, Root, p, FALSE, MaxSymlinkHops)

\* os.IsNotExist(err): true of ENOENT only
IsNotExist(r) == r.err = "ENOENT"

StatNode(f, p) == NodeAt(f, Stat(f, p).path)
LstatNode(f, p) == NodeAt(f, Lstat(f, p).path)

---------------------------------------------------------------------------
(* System calls on the tree.  Each returns [fs, err, ovf]: the new tree,   *)
(* the errno ("" is success) and ovf, set when the call would create an   *)
(* entry outside the path universe (the model cannot hold its result).    *)

Ret(f, e) == [fs |-> f, err |-> e, ovf |-> FALSE]
Overflow(f) == [fs |-> f, err |-> "", ovf |-> TRUE]

IsEmptyDir(f, p) == \A q \in DOMAIN f : (IsPrefix(p, q) /\ q # p) => f[q].k = "none"

\* the entry a create or rename call names, given the resolution par of its
\* parent directory: the parent must be a directory
EntryIn(f, par, name) ==
    IF par.err # "" THEN par
    ELSE IF NodeAt(f, par.path).k # "dir" THEN [err |-> "ENOTDIR", path |-> par.path]
    ELSE [err |-> "", path |-> Append(par.path, name)]

Entry(f, p) == EntryIn(f, Stat(f, Dir(p)), Base(p))

\* creation of node at the entry e (mkdir(2), symlink(2))
CreateAt(f, e, node) ==
    IF e.err # "" THEN Ret(f, e.err)
    ELSE IF NodeAt(f, e.path).k # "none" THEN Ret(f, "EEXIST")
    ELSE IF e.path \notin DOMAIN f THEN Overflow(f)
    ELSE Ret([f EXCEPT ![e.path] = node], "")

\* mkdir(2)
Mkdir(f, p) == CreateAt(f, Entry(f, p), DirNode)

\* symlink(2); id names the link across its removal and re-creation
Symlink(f, target, p, id) == CreateAt(f, Entry(f, p), LinkNode(id, target))

\* the end of os.MkdirAll: mkdir failed, but the directory is there
MkdirAllEnd(f, p, mk) ==
    IF mk.err # "" /\ Lstat(f, p).err = "" /\ LstatNode(f, p).k = "dir" THEN Ret(f, "")
    ELSE mk

\* os.MkdirAll after its fast path: the parent is made (up), then mkdir
MkdirAllSlow(p, up) ==
    IF up.err # "" \/ up.ovf THEN up ELSE MkdirAllEnd(up.fs, p, Mkdir(up.fs, p))

\* os.MkdirAll: stat fast path, then the parent, then mkdir
RECURSIVE MkdirAll(_, _)
MkdirAll(f, p) ==
    IF Stat(f, p).err = ""
      THEN IF StatNode(f, p).k = "dir" THEN Ret(f, "") ELSE Ret(f, "ENOTDIR")
    ELSE IF p = Root THEN Ret(f, Stat(f, p).err)
    ELSE MkdirAllSlow(p, MkdirAll(f, Dir(p)))

\* rename(2) of the entry fp to the entry tp: an existing non-directory at
\* tp is replaced, a directory moves with everything below it
RenameEntry(f, fp, tp) ==
    IF fp = tp THEN Ret(f, "")
    ELSE IF f[fp].k = "dir" /\ IsPrefix(fp, tp) THEN Ret(f, "EINVAL")
    ELSE IF f[fp].k = "dir" /\ NodeAt(f, tp).k \in {"file", "link"} THEN Ret(f, "ENOTDIR")
    ELSE IF f[fp].k # "dir" /\ NodeAt(f, tp).k = "dir" THEN Ret(f, "EISDIR")
    ELSE IF NodeAt(f, tp).k = "dir" /\ ~IsEmptyDir(f, tp) THEN Ret(f, "ENOTEMPTY")
    ELSE IF tp \notin DOMAIN f
            \/ \E q \in DOMAIN f : IsPrefix(fp, q) /\ f[q].k # "none"
                                 /\ (tp \o SubSeq(q, Len(fp) + 1, Len(q))) \notin DOMAIN f
      THEN Overflow(f)
    ELSE Ret([q \in DOMAIN f |->
                IF IsPrefix(tp, q) THEN NodeAt(f, fp \o SubSeq(q, Len(tp) + 1, Len(q)))
                ELSE IF IsPrefix(fp, q) THEN None
                ELSE f[q]], "")

RenameResolved(f, s, t) ==
    IF s.err # "" THEN Ret(f, s.err)
    ELSE IF t.err # "" THEN Ret(f, t.err)
    ELSE IF s.path \notin DOMAIN f THEN Ret(f, "EBUSY")
    ELSE RenameEntry(f, s.path, t.path)

\* os.Rename
Rename(f, from, to) == RenameResolved(f, Lstat(f, from), Entry(f, to))

RemoveResolved(f, s) ==
    IF s.err # "" THEN Ret(f, s.err)
    ELSE IF s.path \notin DOMAIN f THEN Ret(f, "EBUSY")
    ELSE IF f[s.path].k = "dir" /\ ~IsEmptyDir(f, s.path) THEN Ret(f, "ENOTEMPTY")
    ELSE Ret([f EXCEPT ![s.path] = None], "")

\* os.Remove: unlink, or rmdir of an empty directory
Remove(f, p) == RemoveResolved(f, Lstat(f, p))

---------------------------------------------------------------------------
(* Validator and file service *)

Op(from, to) == [From |-> from, To |-> to]

\* a validator that looks at the source only
ValidateSourceOnly(f, op) ==
    IF IsNotExist(Stat(f, op.From)) THEN "ErrSourceNotExist" ELSE ""

\* Validator.ValidateFileOperation: os.Stat on both ends
ValidateFileOperation(f, op) ==
    IF IsNotExist(Stat(f, op.From)) THEN "ErrSourceNotExist"
    ELSE IF Stat(f, op.To).err = "" THEN "ErrDestinationExists"
    ELSE ""

\* a loop that appends the directories as it meets them, innermost first
RECURSIVE MissingDirsInnermostFirst(_, _)
MissingDirsInnermostFirst(f, cur) ==
    IF cur = Root THEN <<>>
    ELSE IF IsNotExist(Stat(f, cur)) THEN <<cur>> \o MissingDirsInnermostFirst(f, Dir(cur))
    ELSE <<>>

\* the loop of ExecuteOperation that records the directories to create:
\* from destDir upwards while os.Stat says "not exist", outermost first
RECURSIVE MissingDirs(_, _)
MissingDirs(f, cur) ==
    IF cur = Root THEN <<>>
    ELSE IF IsNotExist(Stat(f, cur)) THEN Append(MissingDirs(f, Dir(cur)), cur)
    ELSE <<>>

OpResult(f, op, ok, e, dirs, target, o) ==
    [fs |-> f, Operation |-> op, Success |-> ok, Error |-> e,
     CreatedDirs |-> dirs, SymlinkTarget |-> target, ovf |-> o]

\* the target written unchanged at the new location
UnadjustedTarget(op, linkTarget) == linkTarget

\* the target written at the new location: a relative target is resolved
\* against the old directory and made relative to the new one
AdjustedTarget(op, linkTarget) ==
    IF linkTarget.abs THEN linkTarget
    ELSE RelTarget(Rel(Dir(op.To), Clean(Join(Dir(op.From), linkTarget.segs))))

\* an end of the branch that reports the failure of os.Symlink as it is
SymlinkMovedOrLost(op, createdDirs, linkTarget, mk, back) ==
    OpResult(mk.fs, op, mk.err = "", IF mk.err = "" THEN "" ELSE "failed to create new symlink",
             createdDirs, linkTarget, mk.ovf)

\* the end of the symbolic-link branch: mk is the outcome of os.Symlink at
\* the destination, back that of re-creating the original link
SymlinkMoved(op, createdDirs, linkTarget, mk, back) ==
    IF mk.err = "" THEN OpResult(mk.fs, op, TRUE, "", createdDirs, linkTarget, mk.ovf)
    ELSE OpResult(back.fs, op, FALSE,
                  IF back.err # "" THEN "failed to create new symlink and restore original"
                  ELSE "failed to create new symlink",
                  createdDirs, linkTarget, back.ovf)

\* the symbolic-link branch after os.Remove of the old link (rm)
SymlinkRemoved(f, op, createdDirs, link, rm) ==
    IF rm.err # ""
      THEN OpResult(f, op, FALSE, "failed to remove original symlink", createdDirs,
                    link.tgt, FALSE)
    ELSE SymlinkMoved(op, createdDirs, link.tgt,
                      Symlink(rm.fs, AdjustedTarget(op, link.tgt), op.To, link.id),
                      Symlink(rm.fs, link.tgt, op.From, link.id))

\* the symbolic-link branch of ExecuteOperation (source is a link)
MoveSymlink(f, op, createdDirs) ==
    SymlinkRemoved(f, op, createdDirs, LstatNode(f, op.From), Remove(f, op.From))

\* the end of ExecuteOperation for a regular file or directory: mv is the
\* outcome of os.Rename
Renamed(f, op, createdDirs, mv) ==
    IF mv.err # "" \/ mv.ovf THEN OpResult(f, op, FALSE, mv.err, createdDirs, NoTarget, mv.ovf)
    ELSE OpResult(mv.fs, op, TRUE, "", createdDirs, NoTarget, FALSE)

\* ExecuteOperation after os.MkdirAll (md): lstat of the source, then the
\* link branch or os.Rename
MoveAfterMkdir(op, createdDirs, md) ==
    IF md.err # "" \/ md.ovf
      THEN OpResult(md.fs, op, FALSE, "ErrCannotCreateDir", <<>>, NoTarget, md.ovf)
    ELSE IF Lstat(md.fs, op.From).err # ""
      THEN OpResult(md.fs, op, FALSE, "failed to stat source", createdDirs, NoTarget, FALSE)
    ELSE IF LstatNode(md.fs, op.From).k = "link" THEN MoveSymlink(md.fs, op, createdDirs)
    ELSE Renamed(md.fs, op, createdDirs, Rename(md.fs, op.From, op.To))

\* DefaultFileService.ExecuteOperation
ExecuteOperation(f, op) ==
    IF ValidateFileOperation(f, op) # ""
      THEN OpResult(f, op, FALSE, ValidateFileOperation(f, op), <<>>, NoTarget, FALSE)
    ELSE MoveAfterMkdir(op, MissingDirs(f, Dir(op.To)), MkdirAll(f, Dir(op.To)))

CountResolved(f, r) ==
    IF r.err # "" THEN [count |-> 0, err |-> r.err]
    ELSE [count |-> Cardinality({q \in DOMAIN f : IsPrefix(r.path, q)
                                               /\ f[q].k \in {"file", "link"}}),
          err |-> ""]

\* DefaultFileService.CountFiles with no ignore matcher set (NewFileService
\* leaves it nil): filepath.Walk counts every entry that is not a directory
CountFiles(f, rootPath) == CountResolved(f, Lstat(f, rootPath))

\* len(dir) of the path string: a separator and the name, per segment
RECURSIVE PathStrLen(_)
PathStrLen(p) == IF p = <<>> THEN 0 ELSE 1 + Len(Head(p)) + PathStrLen(Tail(p))

\* the first directory had the slice been sorted shortest first
Shortest(dirs) == CHOOSE x \in dirs : \A y \in dirs : PathStrLen(x) =< PathStrLen(y)

\* the first directory of dirs in the sorted order: a longest path
Longest(dirs) == CHOOSE x \in dirs : \A y \in dirs : PathStrLen(x) >= PathStrLen(y)

\* the removal loop over dirs sorted longest first: os.Remove on each,
\* counting the removals that succeed
RECURSIVE RemoveLongestFirst(_, _, _)
RemoveNext(rm, rest, removed) ==
    RemoveLongestFirst(rm.fs, rest, IF rm.err = "" THEN removed + 1 ELSE removed)

RemoveLongestFirst(f, dirs, removed) ==
    IF dirs = {} THEN [fs |-> f, removed |-> removed, err |-> ""]
    ELSE RemoveNext(Remove(f, Longest(dirs)), dirs \ {Longest(dirs)}, removed)

\* DefaultFileService.CleanEmptyDirectories
CleanEmptyDirectories(f, rootPath) ==
    IF Lstat(f, rootPath).err # "" THEN [fs |-> f, removed |-> 0, err |-> Lstat(f, rootPath).err]
    ELSE RemoveLongestFirst(f, {q \in DOMAIN f : IsPrefix(rootPath, q) /\ q # rootPath
                                               /\ f[q].k = "dir"}, 0)

\* the operations of the batch whose source (or destination) has its parent
\* directory outside basePath
External(operations, basePath, end) ==
    {j \in DOMAIN operations :
       HasDotDotPrefix(Rel(Clean(basePath), Dir(Clean(operations[j][end]))))}

\* the directories determineVerificationScope collects before collapsing
ScopeDirs(operations, basePath) ==
    {Clean(basePath)}
    \cup {Dir(Clean(operations[i].From)) : i \in External(operations, basePath, "From")}
    \cup {Dir(Clean(operations[i].To)) : i \in External(operations, basePath, "To")}

\* commonAncestorOfTwo on absolute paths: the longest common run of segments
commonAncestorOfTwo(path1, path2) == SubSeq(path1, 1, CommonLen(path1, path2))

\* findCommonAncestor: a fold of commonAncestorOfTwo over the paths
RECURSIVE findCommonAncestor(_)
findCommonAncestor(paths) ==
    IF Cardinality(paths) = 1 THEN CHOOSE x \in paths : TRUE
    ELSE commonAncestorOfTwo(CHOOSE y \in paths : TRUE,
                             findCommonAncestor(paths \ {CHOOSE y \in paths : TRUE}))

\* a scope that keeps every collected directory
UncollapsedScope(operations, basePath) == ScopeDirs(operations, basePath)

\* DefaultFileService.determineVerificationScope
determineVerificationScope(operations, basePath) ==
    IF Cardinality(ScopeDirs(operations, basePath)) > 1
      THEN {findCommonAncestor(ScopeDirs(operations, basePath))}
    ELSE ScopeDirs(operations, basePath)

OperationRecord(r) ==
    [Operation |-> r.Operation, Success |-> r.Success, Error |-> r.Error,
     CreatedDirs |-> r.CreatedDirs, SymlinkTarget |-> r.SymlinkTarget]

\* the loop of ExecuteOperations over the batch: acc holds the results so
\* far, r is the outcome of the operation just executed
RECURSIVE RunOperations(_, _, _)
\* a loop that stops at the first operation that fails
RunUntilFailure(r, operations, acc) ==
    IF r.ovf \/ ~r.Success
      THEN [fs |-> r.fs, Operations |-> Append(acc, OperationRecord(r)), ovf |-> r.ovf]
    ELSE RunOperations(r.fs, operations, Append(acc, OperationRecord(r)))

RunNext(r, operations, acc) ==
    IF r.ovf THEN [fs |-> r.fs, Operations |-> Append(acc, OperationRecord(r)), ovf |-> TRUE]
    ELSE RunOperations(r.fs, operations, Append(acc, OperationRecord(r)))

RunOperations(f, operations, acc) ==
    IF operations = <<>> THEN [fs |-> f, Operations |-> acc, ovf |-> FALSE]
    ELSE RunNext(ExecuteOperation(f, Head(operations)), Tail(operations), acc)

\* the counting loops of ExecuteOperations over the verification paths
RECURSIVE SumCounts(_, _)
SumNext(c, rest) == [count |-> c.count + rest.count, failed |-> c.err # "" \/ rest.failed]

SumCounts(f, paths) ==
    IF paths = {} THEN [count |-> 0, failed |-> FALSE]
    ELSE SumNext(CountFiles(f, CHOOSE y \in paths : TRUE),
                 SumCounts(f, paths \ {CHOOSE y \in paths : TRUE}))

NumSuccess(results) == Cardinality({i \in DOMAIN results : results[i].Success})

\* ExecuteOperations after the cleanup (cl): the final count and the result
Verified(operations, ovf, initial, cl, final) ==
    [fs |-> cl.fs, ovf |-> ovf, err |-> FALSE,
     result |-> [Operations |-> operations,
                 SuccessCount |-> NumSuccess(operations),
                 FailCount |-> Len(operations) - NumSuccess(operations),
                 InitialFileCount |-> initial.count,
                 FinalFileCount |-> final.count,
                 CleanedDirs |-> cl.removed,
                 VerificationError |-> final.failed]]

Cleaned(verificationPaths, run, initial, cl) ==
    Verified(run.Operations, run.ovf, initial, cl, SumCounts(cl.fs, verificationPaths))

\* ExecuteOperations after the loop over the batch (run): the optional
\* removal of empty directories
Executed(basePath, cleanEmpty, verificationPaths, initial, run) ==
    Cleaned(verificationPaths, run, initial,
            IF cleanEmpty THEN CleanEmptyDirectories(run.fs, basePath)
            ELSE [fs |-> run.fs, removed |-> 0, err |-> ""])

\* a batch that runs whatever the initial count returned
CountedAnyway(f, operations, basePath, cleanEmpty, verificationPaths, initial) ==
    Executed(basePath, cleanEmpty, verificationPaths, initial,
             RunOperations(f, operations, <<>>))

\* ExecuteOperations after the initial count
Counted(f, operations, basePath, cleanEmpty, verificationPaths, initial) ==
    IF initial.failed
      THEN [fs |-> f, ovf |-> FALSE, err |-> TRUE,
            result |-> [Operations |-> <<>>, SuccessCount |-> 0, FailCount |-> 0,
                        InitialFileCount |-> 0, FinalFileCount |-> 0,
                        CleanedDirs |-> 0, VerificationError |-> TRUE]]
    ELSE Executed(basePath, cleanEmpty, verificationPaths, initial,
                  RunOperations(f, operations, <<>>))

Scoped(f, operations, basePath, cleanEmpty, verificationPaths) ==
    Counted(f, operations, basePath, cleanEmpty, verificationPaths,
            SumCounts(f, verificationPaths))

\* DefaultFileService.ExecuteOperations
ExecuteOperations(f, operations, basePath, cleanEmpty) ==
    Scoped(f, operations, basePath, cleanEmpty,
           determineVerificationScope(operations, basePath))

---------------------------------------------------------------------------
(* Index service.  Every statement of the service runs on is.db (db.Exec,  *)
(* db.QueryRow), none on is.tx: the table is read and written directly,    *)
(* whether or not a transaction handle is open.                            *)

NoRow == [present |-> FALSE, desc |-> "", ftype |-> "", size |-> 0, mtime |-> 0,
          symlink |-> NoTarget]
Row(d, t, s, m, l) == [present |-> TRUE, desc |-> d, ftype |-> t, size |-> s, mtime |-> m,
                       symlink |-> l]

\* DetermineFileType: no name of the universe has an extension
DetermineFileType(p) == "other"

\* DefaultIndexService.IsFileIndexed
IsFileIndexed(idx, p) == idx[p].present

\* DefaultIndexService.GetIndexedFile (NoRow is the nil result)
GetIndexedFile(idx, p) == idx[p]

\* Modification times are counted in ticks, TicksPerSecond of them to the
\* second; time.Time.Unix() is the whole seconds
TicksPerSecond == 2
Unix(t) == t \div TicksPerSecond

\* DefaultIndexService.IndexFileWithSymlink: INSERT ... ON CONFLICT DO UPDATE
IndexFileWithSymlink(idx, p, d, t, s, m, l) == [idx EXCEPT ![p] = Row(d, t, s, Unix(m), l)]

\* DefaultIndexService.IndexFile
IndexFile(idx, p, d, t, s, m) == IndexFileWithSymlink(idx, p, d, t, s, m, NoTarget)

\* DefaultIndexService.RemoveFile
RemoveFile(idx, p) == [idx EXCEPT ![p] = NoRow]

\* the UPDATE statement had it rewritten the key only
UpdateRowKeyOnly(idx, oldPath, newPath, newSymlinkTarget, info) ==
    IF ~idx[oldPath].present THEN [index |-> idx, err |-> ""]
    ELSE IF oldPath # newPath /\ idx[newPath].present
      THEN [index |-> idx, err |-> "UNIQUE constraint failed"]
    ELSE [index |-> [idx EXCEPT ![oldPath] = NoRow, ![newPath] = idx[oldPath]], err |-> ""]

\* the UPDATE statement of UpdateFilePathWithSymlink, info being the file
\* at newPath: WHERE file_path = oldPath; file_path is UNIQUE, so a row
\* already at newPath makes the statement fail
UpdateRow(idx, oldPath, newPath, newSymlinkTarget, info) ==
    IF ~idx[oldPath].present THEN [index |-> idx, err |-> ""]
    ELSE IF oldPath # newPath /\ idx[newPath].present
      THEN [index |-> idx, err |-> "UNIQUE constraint failed"]
    ELSE [index |-> [idx EXCEPT ![oldPath] = NoRow,
                                ![newPath] = Row(idx[oldPath].desc, idx[oldPath].ftype,
                                                 info.sz, Unix(info.mt), newSymlinkTarget)],
          err |-> ""]

\* DefaultIndexService.UpdateFilePathWithSymlink
UpdateFilePathWithSymlink(f, idx, oldPath, newPath, newSymlinkTarget) ==
    IF Lstat(f, newPath).err # "" THEN [index |-> idx, err |-> "failed to stat new file path"]
    ELSE UpdateRow(idx, oldPath, newPath, newSymlinkTarget, LstatNode(f, newPath))

\* the symlink target UpdateFilePath reads at the new path ("" for none)
ReadTarget(info) == IF info.k = "link" THEN info.tgt ELSE NoTarget

\* DefaultIndexService.UpdateFilePath
UpdateFilePath(f, idx, oldPath, newPath) ==
    IF Lstat(f, newPath).err # "" THEN [index |-> idx, err |-> "failed to stat new file path"]
    ELSE UpdateFilePathWithSymlink(f, idx, oldPath, newPath, ReadTarget(LstatNode(f, newPath)))

\* DefaultIndexService.BeginTransaction; dbOk is whether db.Begin succeeds
BeginTransaction(t, dbOk) ==
    IF t THEN [tx |-> t, err |-> "transaction already in progress"]
    ELSE IF ~dbOk THEN [tx |-> FALSE, err |-> "failed to begin transaction"]
    ELSE [tx |-> TRUE, err |-> ""]

\* CommitTransaction had it kept the handle when tx.Commit fails
CommitKeepingHandle(t, dbOk) ==
    IF ~t THEN [tx |-> t, err |-> "no transaction in progress"]
    ELSE IF ~dbOk THEN [tx |-> TRUE, err |-> "failed to commit transaction"]
    ELSE [tx |-> FALSE, err |-> ""]

\* DefaultIndexService.CommitTransaction; dbOk is whether tx.Commit succeeds
CommitTransaction(t, dbOk) ==
    IF ~t THEN [tx |-> t, err |-> "no transaction in progress"]
    ELSE IF ~dbOk THEN [tx |-> FALSE, err |-> "failed to commit transaction"]
    ELSE [tx |-> FALSE, err |-> ""]

\* RollbackTransaction had it kept the handle when tx.Rollback fails
RollbackKeepingHandle(t, dbOk) ==
    IF ~t THEN [tx |-> t, err |-> "no transaction in progress"]
    ELSE IF ~dbOk THEN [tx |-> TRUE, err |-> "failed to rollback transaction"]
    ELSE [tx |-> FALSE, err |-> ""]

\* DefaultIndexService.RollbackTransaction; dbOk is whether tx.Rollback succeeds
RollbackTransaction(t, dbOk) ==
    IF ~t THEN [tx |-> t, err |-> "no transaction in progress"]
    ELSE IF ~dbOk THEN [tx |-> FALSE, err |-> "failed to rollback transaction"]
    ELSE [tx |-> FALSE, err |-> ""]

OpPaths(operations) ==
    {operations[i].From : i \in DOMAIN operations} \cup {operations[i].To : i \in DOMAIN operations}

NoSnapshot == [valid |-> FALSE, Entries |-> <<>>]

\* DefaultIndexService.CreateSnapshot: an entry for each from/to path that
\* has a row (a path without a row gets no entry)
CreateSnapshot(idx, operations) ==
    [valid |-> TRUE,
     Entries |-> [p \in {q \in OpPaths(operations) : GetIndexedFile(idx, q).present}
                    |-> GetIndexedFile(idx, p)]]

\* one step of the replay loop of RestoreSnapshot: IndexFile for an entry,
\* RemoveFile for a nil entry
ReplayEntry(idx, p, file) ==
    IF file.present THEN IndexFile(idx, p, file.desc, file.ftype, file.size, file.mtime)
    ELSE RemoveFile(idx, p)

RECURSIVE ReplayEntries(_, _, _)
ReplayNext(idx, entries, todo, p) ==
    ReplayEntries(ReplayEntry(idx, p, entries[p]), entries, todo \ {p})

ReplayEntries(idx, entries, todo) ==
    IF todo = {} THEN idx
    ELSE ReplayNext(idx, entries, todo, CHOOSE q \in todo : TRUE)

\* RestoreSnapshot once its transaction is open (b): replay, then commit;
\* replayOk is whether the database takes the first statement of the
\* replay: if not, the transaction is rolled back and the error returned
Replayed(idx, snap, b, replayOk, commitOk) ==
    IF b.err # "" THEN [index |-> idx, tx |-> b.tx, err |-> b.err]
    ELSE IF ~replayOk /\ DOMAIN snap.Entries # {}
      THEN [index |-> idx, tx |-> RollbackTransaction(b.tx, TRUE).tx,
            err |-> "failed to restore file"]
    ELSE [index |-> ReplayEntries(idx, snap.Entries, DOMAIN snap.Entries),
          tx |-> CommitTransaction(b.tx, commitOk).tx,
          err |-> CommitTransaction(b.tx, commitOk).err]

\* DefaultIndexService.RestoreSnapshot; beginOk, replayOk and commitOk are
\* whether the database begins the transaction of the restore, takes the
\* statements of the replay and commits
RestoreSnapshot(idx, t, snap, beginOk, replayOk, commitOk) ==
    IF ~snap.valid THEN [index |-> idx, tx |-> t, err |-> "snapshot is nil"]
    ELSE Replayed(idx, snap, BeginTransaction(t, beginOk), replayOk, commitOk)

---------------------------------------------------------------------------
(* Ignore rules and the change scanner.  A rule is a name of one term,     *)
(* scoped to directories ("name/") or not ("name"); a relative path is     *)
(* the sequence of its segments.                                           *)

Pattern(d, n) == [dir |-> d, name |-> n]

\* strings.Contains(name, "*") || strings.Contains(name, "?")
HasWildcard(name) == name \in {"*", "?"}

\* doublestar.Match(name, rel) for a name of one term and segments of one
\* character: "*" and "?" match any segment, a class or an alternation the
\* segments it lists, any other name itself; a name without "/" matches
\* no path of several segments
Glob(name, rel) ==
    /\ Len(rel) = 1
    /\ \/ name \in {"*", "?"}
       \/ name \in {"[ad]", "{a,d}"} /\ rel[1] \in {"a", "d"}
       \/ rel[1] = name

\* a directory rule that is looked for at the root level only
MatchesAtRoot(pat, rel, isDir) ==
    IF pat.dir
      THEN \/ isDir /\ (rel = <<pat.name>> \/ (Len(rel) > 1 /\ Head(rel) = pat.name))
           \/ ~isDir /\ Len(rel) > 1 /\ Head(rel) = pat.name
           \/ Glob(pat.name, rel)
    ELSE Glob(pat.name, rel)

\* one turn of the loop of IgnorePatternMatcher.ShouldIgnore
MatchesPattern(pat, rel, isDir) ==
    IF pat.dir
      THEN \/ isDir /\ (rel = <<pat.name>> \/ (Len(rel) > 1 /\ Head(rel) = pat.name))
           \/ ~isDir /\ Len(rel) > 1 /\ Head(rel) = pat.name
           \/ ~HasWildcard(pat.name) /\ \E i \in DOMAIN rel : rel[i] = pat.name
           \/ Glob(pat.name, rel)
    ELSE Glob(pat.name, rel)

\* IgnorePatternMatcher.ShouldIgnore
ShouldIgnore(patterns, rel, isDir) ==
    \E i \in DOMAIN patterns : MatchesPattern(patterns[i], rel, isDir)

\* DefaultIndexService.NeedsReindexing: [needs, err]
NeedsReindexing(f, idx, p) ==
    IF ~IsFileIndexed(idx, p) THEN [needs |-> TRUE, err |-> ""]
    ELSE IF Stat(f, p).err # "" THEN [needs |-> FALSE, err |-> Stat(f, p).err]
    ELSE [needs |-> Unix(StatNode(f, p).mt) # idx[p].mtime, err |-> ""]

\* the characters of a file name (every name but "dd" is one character)
Spell(name) == IF name = "dd" THEN <<"d", "d">> ELSE <<name>>

\* the path as the string the file_path column holds
RECURSIVE Text(_)
Text(p) == IF p = <<>> THEN <<>> ELSE <<"/">> \o Spell(Head(p)) \o Text(Tail(p))

PathString(p) == IF p = <<>> THEN <<"/">> ELSE Text(p)

\* the lower-case form of an ASCII character
Lower(c) == IF c = "D" THEN "d" ELSE c

\* the LIKE operator of SQLite, no ESCAPE clause: "%" stands for any run of
\* characters, "_" for any one character, ASCII letters match in either
\* case
RECURSIVE Like(_, _)
Like(pat, str) ==
    IF pat = <<>> THEN str = <<>>
    ELSE IF Head(pat) = "%" THEN
        Like(Tail(pat), str) \/ (str # <<>> /\ Like(pat, Tail(str)))
    ELSE /\ str # <<>>
         /\ Head(pat) = "_" \/ Lower(Head(pat)) = Lower(Head(str))
         /\ Like(Tail(pat), Tail(str))

\* the LIKE pattern built from the cleaned directory
LikePattern(cleaned) ==
    IF cleaned[Len(cleaned)] = "/" THEN cleaned \o <<"%">>
    ELSE cleaned \o <<"/", "%">>

\* DefaultIndexService.GetIndexedFilesInDirectory: the rows the query
\* selects
GetIndexedFilesInDirectory(idx, dirPath) ==
    {q \in DOMAIN idx :
        /\ idx[q].present
        /\ \/ Like(LikePattern(PathString(Clean(dirPath))), PathString(q))
           \/ q = Clean(dirPath)}

\* currentDepth of the walk callback (dirPath is never "/")
Depth(dirPath, q) == Len(q) - Len(dirPath)

\* a callback that asks no ignore matcher
SkippedByDepth(f, sc, q) == sc.maxDepth > 0 /\ Depth(sc.dirPath, q) > sc.maxDepth

\* the walk callback of ScanDirectoryChanges returns at q before recording
\* it: q is ignored, or deeper than maxDepth
Skipped(f, sc, q) ==
    \/ q # sc.dirPath /\ ShouldIgnore(sc.patterns, Rel(sc.dirPath, q), f[q].k = "dir")
    \/ sc.maxDepth > 0 /\ Depth(sc.dirPath, q) > sc.maxDepth

\* filepath.Walk reaches q: every directory above it, up to dirPath, was
\* entered (the callback did not return SkipDir for it)
RECURSIVE Visited(_, _, _)
Visited(f, sc, q) ==
    IF q = sc.dirPath THEN TRUE
    ELSE /\ f[q].k # "none"
         /\ f[Dir(q)].k = "dir"
         /\ ~Skipped(f, sc, Dir(q))
         /\ Visited(f, sc, Dir(q))

\* the map currentFiles of ScanDirectoryChanges after the walk
CurrentFiles(f, sc) ==
    {q \in PathU : /\ IsPrefix(sc.dirPath, q)
                   /\ f[q].k \in {"file", "link"}
                   /\ Visited(f, sc, q)
                   /\ ~Skipped(f, sc, q)}

\* the four lists when the loop over the indexed rows has no depth test
ClassifiedAllDepths(f, idx, sc, current, indexed) ==
    [NewFiles |-> {q \in current : q \notin indexed},
     ModifiedFiles |-> {q \in current \cap indexed :
                          NeedsReindexing(f, idx, q).err = "" /\ NeedsReindexing(f, idx, q).needs},
     UnchangedFiles |-> {q \in current \cap indexed :
                           NeedsReindexing(f, idx, q).err = "" /\ ~NeedsReindexing(f, idx, q).needs},
     DeletedFiles |-> {q \in indexed : q \notin current}]

\* the four lists of ScanDirectoryChanges, as sets (the walk visits a
\* path once, the map of rows holds it once); a path whose NeedsReindexing
\* returns an error is logged and goes to no list
Classified(f, idx, sc, current, indexed) ==
    [NewFiles |-> {q \in current : q \notin indexed},
     ModifiedFiles |-> {q \in current \cap indexed :
                          NeedsReindexing(f, idx, q).err = "" /\ NeedsReindexing(f, idx, q).needs},
     UnchangedFiles |-> {q \in current \cap indexed :
                           NeedsReindexing(f, idx, q).err = "" /\ ~NeedsReindexing(f, idx, q).needs},
     DeletedFiles |-> {q \in indexed :
                         /\ sc.maxDepth = 0 \/ Depth(sc.dirPath, q) <= sc.maxDepth
                         /\ q \notin current}]

ScanArgs(dirPath, maxDepth, patterns) ==
    [dirPath |-> dirPath, maxDepth |-> maxDepth, patterns |-> patterns]

\* DefaultIndexService.ScanDirectoryChanges; patterns are the rules given
\* to SetIgnorePatterns (none: no matcher)
ScanDirectoryChanges(f, idx, sc) ==
    IF Lstat(f, sc.dirPath).err # ""
      THEN [changes |-> [NewFiles |-> {}, ModifiedFiles |-> {}, UnchangedFiles |-> {},
                         DeletedFiles |-> {}],
            err |-> Lstat(f, sc.dirPath).err]
    ELSE [changes |-> Classified(f, idx, sc, CurrentFiles(f, sc),
                                 GetIndexedFilesInDirectory(idx, sc.dirPath)),
          err |-> ""]

---------------------------------------------------------------------------
(* Index orchestrator.  analysis is the analyzer's answer in this call:    *)
(* [ok, desc].                                                             *)

\* indexFile after os.Stat succeeded, info being the file
Analyzed(idx, p, analysis, info) ==
    IF ~analysis.ok THEN [index |-> idx, err |-> ""]
    ELSE [index |-> IndexFile(idx, p, analysis.desc, DetermineFileType(p), info.sz, info.mt),
          err |-> ""]

\* IndexDirectoryOrchestrator.indexFile
indexFile(f, idx, p, analysis) ==
    IF Stat(f, p).err # "" THEN [index |-> idx, err |-> Stat(f, p).err]
    ELSE Analyzed(idx, p, analysis, StatNode(f, p))

\* IndexDirectoryOrchestrator.UpdateIndexAfterOperations: every operation
\* is tried, the errors are collected
RECURSIVE UpdateIndexAfterOperations(_, _, _, _)
Collected(r, rest) ==
    [index |-> rest.index, errors |-> rest.errors + (IF r.err # "" THEN 1 ELSE 0)]

UpdateNext(f, r, operations, analysis) ==
    Collected(r, UpdateIndexAfterOperations(f, r.index, operations, analysis))

UpdateIndexAfterOperations(f, idx, operations, analysis) ==
    IF operations = <<>> THEN [index |-> idx, errors |-> 0]
    ELSE UpdateNext(f,
                    IF IsFileIndexed(idx, Head(operations).From)
                      THEN UpdateFilePath(f, idx, Head(operations).From, Head(operations).To)
                    ELSE indexFile(f, idx, Head(operations).To, analysis),
                    Tail(operations), analysis)

\* the loops of IndexDirectory over NewFiles and ModifiedFiles: indexFile
\* on each path (it writes the row of that path only; its error is logged)
IndexAll(f, idx, paths, analysis) ==
    [q \in PathU |-> IF q \in paths THEN indexFile(f, idx, q, analysis).index[q] ELSE idx[q]]

\* the loop of IndexDirectory over DeletedFiles
RemoveAll(idx, paths) ==
    [q \in PathU |-> IF q \in paths THEN RemoveFile(idx, q)[q] ELSE idx[q]]

\* IndexDirectory after its scan returned r
DirectoryScanned(f, idx, analysis, r) ==
    IF r.err # "" THEN [index |-> idx, changes |-> r.changes,
                        err |-> "failed to scan directory changes"]
    ELSE IF r.changes.NewFiles \cup r.changes.ModifiedFiles = {}
      THEN [index |-> idx, changes |-> r.changes, err |-> ""]
    ELSE [index |-> RemoveAll(IndexAll(f, idx,
                                       r.changes.NewFiles \cup r.changes.ModifiedFiles,
                                       analysis),
                              r.changes.DeletedFiles),
          changes |-> r.changes, err |-> ""]

\* IndexDirectoryOrchestrator.IndexDirectory
IndexDirectory(f, idx, sc, analysis) ==
    DirectoryScanned(f, idx, analysis, ScanDirectoryChanges(f, idx, sc))

---------------------------------------------------------------------------
(* Orchestrator *)

\* the loop of ExecuteOrganization that extracts the successful operations
RECURSIVE SuccessfulOps(_)
SuccessfulOps(results) ==
    IF results = <<>> THEN <<>>
    ELSE IF Head(results).Success
      THEN <<Head(results).Operation>> \o SuccessfulOps(Tail(results))
    ELSE SuccessfulOps(Tail(results))

Outcome(ex, idx, t, failed) ==
    [fs |-> ex.fs, index |-> idx, tx |-> t, result |-> ex.result,
     updateFailed |-> failed, ovf |-> ex.ovf]

\* the failure branch of ExecuteOrganization: rs is the outcome of
\* RestoreSnapshot
Restored(ex, rs) == Outcome(ex, rs.index, rs.tx, TRUE)

\* the answers of the database to the calls of one ExecuteOrganization:
\* whether db.Begin, tx.Commit and tx.Rollback succeed, and in
\* RestoreSnapshot db.Begin, the replay and tx.Commit.  An answer to a call
\* that is not made after the failures before it is left TRUE.
DbAnswers ==
    {db \in [begin : BOOLEAN, commit : BOOLEAN, rollback : BOOLEAN,
             restoreBegin : BOOLEAN, replay : BOOLEAN, restoreCommit : BOOLEAN] :
        /\ ~db.begin => (db.commit /\ db.rollback /\ db.restoreBegin)
        /\ ~db.commit => (db.rollback /\ db.restoreBegin)
        /\ ~db.restoreBegin => db.replay
        /\ ~db.replay => db.restoreCommit
        /\ (~db.begin \/ ~db.commit \/ ~db.restoreBegin) => (db.replay /\ db.restoreCommit)}

\* a database that answers every call
DbOk == [begin |-> TRUE, commit |-> TRUE, rollback |-> TRUE,
         restoreBegin |-> TRUE, replay |-> TRUE, restoreCommit |-> TRUE]

\* ExecuteOrganization after the index update (up): rollback and restore
\* on error, commit otherwise
IndexUpdated(indexSnapshot, ex, b, up, db) ==
    IF up.errors > 0
      THEN Restored(ex, RestoreSnapshot(up.index, RollbackTransaction(b.tx, db.rollback).tx,
                                        indexSnapshot, db.restoreBegin, db.replay,
                                        db.restoreCommit))
    ELSE Outcome(ex, up.index, CommitTransaction(b.tx, db.commit).tx, FALSE)

\* ExecuteOrganization after BeginTransaction (b)
IndexBegun(idx, analysis, indexSnapshot, ex, b, db) ==
    IF b.err # "" THEN Outcome(ex, idx, b.tx, FALSE)
    ELSE IndexUpdated(indexSnapshot, ex, b,
                      UpdateIndexAfterOperations(ex.fs, idx,
                                                 SuccessfulOps(ex.result.Operations),
                                                 analysis),
                      db)

\* ExecuteOrganization after ExecuteOperations (ex)
OperationsExecuted(idx, t, analysis, indexSnapshot, ex, db) ==
    IF ex.result.SuccessCount = 0 THEN Outcome(ex, idx, t, FALSE)
    ELSE IndexBegun(idx, analysis, indexSnapshot, ex, BeginTransaction(t, db.begin), db)

\* Orchestrator.ExecuteOrganization with the index services present; db is
\* what the database answers during the call
ExecuteOrganization(f, idx, t, request, analysis, db) ==
    OperationsExecuted(idx, t, analysis, CreateSnapshot(idx, request.Operations),
                       ExecuteOperations(f, request.Operations, request.BasePath,
                                         request.CleanEmpty),
                       db)

---------------------------------------------------------------------------
(* Main window: execute, then undo *)

\* the bookkeeping of MainWindow.displayExecutionResult for an execution
\* (not a rollback): the results of the operations that succeeded
RECURSIVE SuccessfulResults(_)
SuccessfulResults(results) ==
    IF results = <<>> THEN <<>>
    ELSE IF Head(results).Success THEN <<Head(results)>> \o SuccessfulResults(Tail(results))
    ELSE SuccessfulResults(Tail(results))

\* MainWindow.onRollback: from and to swapped, last successful result first
InverseOps(successful) ==
    [i \in 1..Len(successful) |->
        Op(successful[Len(successful) + 1 - i].Operation.To,
           successful[Len(successful) + 1 - i].Operation.From)]

\* MainWindow.onRollback: the directories recorded as created
DirsToRemove(successful) ==
    UNION {{successful[i].CreatedDirs[j] : j \in DOMAIN successful[i].CreatedDirs}
             : i \in DOMAIN successful}

---------------------------------------------------------------------------
(* The execution flow: one batch, then its undo *)

P(s) == BasePath \o s

EmptyTree == [q \in PathU |-> IF q = BasePath THEN DirNode ELSE None]

\* the trees a batch may start from: regular files, a directory with a file
\* in it or empty or absent, a relative symbolic link that is valid or
\* dangling; the base directory itself gone
InitTrees ==
    { [EmptyTree EXCEPT ![P(<<"a">>)] = FileNode(1, 2),
                        ![P(<<"l">>)] = LinkNode(2, RelTarget(<<"a">>)),
                        ![P(<<"d">>)] = DirNode,
                        ![P(<<"d", "a">>)] = FileNode(3, 2)],
      [EmptyTree EXCEPT ![P(<<"a">>)] = FileNode(1, 2),
                        ![P(<<"l">>)] = LinkNode(2, RelTarget(<<"b">>)),
                        ![P(<<"d">>)] = DirNode,
                        ![P(<<"d", "a">>)] = FileNode(3, 2)],
      [EmptyTree EXCEPT ![P(<<"a">>)] = FileNode(1, 2),
                        ![P(<<"b">>)] = FileNode(4, 2),
                        ![P(<<"d">>)] = DirNode],
      [EmptyTree EXCEPT ![P(<<"a">>)] = FileNode(1, 2),
                        ![P(<<"n">>)] = FileNode(5, 2)],
      [q \in PathU |-> None] }

EmptyIndex == [q \in PathU |-> NoRow]

\* the row indexFile stores for the file at p when the analyzer answers d
IndexedRow(f, p, d) ==
    Row(d, DetermineFileType(p), StatNode(f, p).sz, Unix(StatNode(f, p).mt), NoTarget)

\* an index that holds exactly the regular files among S, as indexFile left them
IndexOf(f, S) ==
    [q \in PathU |-> IF q \in S /\ f[q].k = "file" THEN IndexedRow(f, q, "orig") ELSE NoRow]

\* the files that were indexed before the batch (those of them that exist)
InitIndexSets == { {P(<<"a">>), P(<<"d", "a">>)} }

OpU == {Op(f, t) : <<f, t>> \in {x \in (PathU \ {BasePath}) \X (PathU \ {BasePath}) : x[1] # x[2]}}

Batches == UNION {[1..n -> OpU] : n \in 1..MaxOps}

Analyses == {[ok |-> TRUE, desc |-> "gen"], [ok |-> FALSE, desc |-> ""]}

NoResult == [Operations |-> <<>>, SuccessCount |-> 0, FailCount |-> 0,
             InitialFileCount |-> 0, FinalFileCount |-> 0, CleanedDirs |-> 0,
             VerificationError |-> FALSE]
NoRequest == [Operations |-> <<>>, BasePath |-> BasePath, CleanEmpty |-> FALSE]
NoChanges == [NewFiles |-> {}, ModifiedFiles |-> {}, UnchangedFiles |-> {}, DeletedFiles |-> {}]
NoCall == [fn |-> ""]
NoScan == [dirPath |-> BasePath, maxDepth |-> 0, patterns |-> <<>>]

\* no goroutine has called the index service: is.tx is nil (handle 0), no
\* transaction is open in the database
Workers == 1..NumWorkers
NoWorkers == [pc |-> [w \in Workers |-> "ready"], handle |-> 0, open |-> {}]

\* the rest of the state, nothing having run yet
Idle ==
    /\ tx = FALSE
    /\ phase = "idle"
    /\ req = NoRequest
    /\ result = NoResult
    /\ lastSuccessfulResults = <<>>
    /\ fs0 = fs
    /\ index0 = index
    /\ updateFailed = FALSE
    /\ snapshot = NoSnapshot
    /\ lastErr = ""
    /\ changes = NoChanges
    /\ atBegin = index
    /\ atSnapshot = index
    /\ scan = NoScan
    /\ analyzed = FALSE
    /\ buffer = <<>>
    /\ streamOps = <<>>
    /\ delivered = <<>>
    /\ text = <<>>
    /\ dropped = FALSE
    /\ stamp = [q \in PathU |-> IF index[q].present THEN StatNode(fs, q).mt ELSE 0]
    /\ lastCall = NoCall
    /\ workers = NoWorkers

Init ==
    /\ fs \in InitTrees
    /\ \E S \in InitIndexSets : index = IndexOf(fs, S)
    /\ Idle

\* the state after onExecute: r is the outcome of ExecuteOrganization
ExecutionDisplayed(request, r) ==
    /\ ~r.ovf
    /\ fs' = r.fs
    /\ index' = r.index
    /\ tx' = r.tx
    /\ req' = request
    /\ result' = r.result
    /\ updateFailed' = r.updateFailed
    /\ lastSuccessfulResults' = SuccessfulResults(r.result.Operations)

Request(batch, clean) == [Operations |-> batch, BasePath |-> BasePath, CleanEmpty |-> clean]

\* MainWindow.onExecute: ExecuteOrganization, then displayExecutionResult
Execute ==
    /\ phase = "idle"
    /\ \E batch \in Batches, clean \in BOOLEAN, analysis \in Analyses :
         ExecutionDisplayed(Request(batch, clean),
                            ExecuteOrganization(fs, index, tx, Request(batch, clean), analysis,
                                                DbOk))
    /\ fs0' = fs
    /\ index0' = index
    /\ phase' = "executed"
    /\ UNCHANGED <<snapshot, lastErr, changes, atBegin, atSnapshot, scan, analyzed,
                   streamVars, stamp, lastCall, workers>>

\* the state after onRollback: r is the outcome of ExecuteOrganization on
\* the inverse batch, rm that of removing the created directories
RollbackDisplayed(r, rm) ==
    /\ ~r.ovf
    /\ fs' = rm.fs
    /\ index' = r.index
    /\ tx' = r.tx
    /\ result' = [r.result EXCEPT !.CleanedDirs = IF rm.removed > 0 THEN rm.removed ELSE @]
    /\ updateFailed' = r.updateFailed

RolledBack(r) ==
    RollbackDisplayed(r, RemoveLongestFirst(r.fs, DirsToRemove(lastSuccessfulResults), 0))

\* MainWindow.onRollback: the inverse batch, then removal of the created
\* directories, longest path first
Rollback ==
    /\ phase = "executed"
    /\ lastSuccessfulResults # <<>>
    /\ \E analysis \in Analyses :
         RolledBack(ExecuteOrganization(fs, index, tx,
                                        [Operations |-> InverseOps(lastSuccessfulResults),
                                         BasePath |-> req.BasePath, CleanEmpty |-> FALSE],
                                        analysis, DbOk))
    /\ phase' = "rolledback"
    /\ UNCHANGED <<req, lastSuccessfulResults, fs0, index0, snapshot, lastErr, changes,
                   atBegin, atSnapshot, scan, analyzed, streamVars, stamp, lastCall, workers>>

Next == Execute \/ Rollback

Spec == Init /\ [][Next]_vars

---------------------------------------------------------------------------
(* The index store on its own: transactions, mutations, snapshot, restore  *)

Tree1 ==
    [EmptyTree EXCEPT ![P(<<"a">>)] = FileNode(1, 2),
                      ![P(<<"l">>)] = LinkNode(2, RelTarget(<<"a">>)),
                      ![P(<<"d">>)] = DirNode,
                      ![P(<<"d", "a">>)] = FileNode(3, 2)]

\* the paths the store is asked to change and the batches snapshots are
\* taken for
TxPaths == {P(<<"a">>), P(<<"l">>)}
TxBatches == {<<Op(P(<<"a">>), P(<<"l">>))>>, <<Op(P(<<"a">>), P(<<"b">>))>>}

InitTx ==
    /\ fs = Tree1
    /\ index = IndexOf(fs, {P(<<"a">>)})
    /\ Idle

\* the variables no call of the store touches
StoreFrame == UNCHANGED <<fs, result, lastSuccessfulResults, fs0, index0, updateFailed,
                          changes, scan, analyzed, streamVars, stamp, lastCall, workers>>

\* the state after BeginTransaction returned r
Begun(r) ==
    /\ tx' = r.tx
    /\ lastErr' = r.err
    /\ atBegin' = IF r.err = "" THEN index ELSE atBegin
    /\ phase' = "begin"
    /\ UNCHANGED <<index, req, snapshot, atSnapshot>>
    /\ StoreFrame

Begin == \E dbOk \in BOOLEAN : Begun(BeginTransaction(tx, dbOk))

\* the state after CommitTransaction or RollbackTransaction returned r
Ended(r, call) ==
    /\ tx' = r.tx
    /\ lastErr' = r.err
    /\ phase' = call
    /\ UNCHANGED <<index, req, snapshot, atBegin, atSnapshot>>
    /\ StoreFrame

Commit == \E dbOk \in BOOLEAN : Ended(CommitTransaction(tx, dbOk), "commit")

RollbackTx == \E dbOk \in BOOLEAN : Ended(RollbackTransaction(tx, dbOk), "rollback")

\* the state after a mutation left the table as idx and returned err
Mutated(idx, err, call) ==
    /\ index' = idx
    /\ lastErr' = err
    /\ phase' = call
    /\ UNCHANGED <<tx, req, snapshot, atBegin, atSnapshot>>
    /\ StoreFrame

Upsert ==
    \E p \in TxPaths :
        Mutated(IndexFile(index, p, "new", DetermineFileType(p), 1, 1), "", "upsert")

RemovePath == \E p \in TxPaths : Mutated(RemoveFile(index, p), "", "remove")

PathUpdated(r) == Mutated(r.index, r.err, "updatePath")

UpdatePath ==
    \E p \in TxPaths, q \in TxPaths : p # q /\ PathUpdated(UpdateFilePath(fs, index, p, q))

Snapshot ==
    \E ops \in TxBatches :
        /\ snapshot' = CreateSnapshot(index, ops)
        /\ req' = Request(ops, FALSE)
        /\ atSnapshot' = index
        /\ lastErr' = ""
        /\ phase' = "snapshot"
        /\ UNCHANGED <<index, tx, atBegin>>
        /\ StoreFrame

SnapshotRestored(r) ==
    /\ index' = r.index
    /\ tx' = r.tx
    /\ lastErr' = r.err
    /\ phase' = "restore"
    /\ UNCHANGED <<req, snapshot, atBegin, atSnapshot>>
    /\ StoreFrame

Restore ==
    \E beginOk \in BOOLEAN, replayOk \in BOOLEAN, commitOk \in BOOLEAN :
        SnapshotRestored(RestoreSnapshot(index, tx, snapshot, beginOk, replayOk, commitOk))

NextTx ==
    \/ Begin
    \/ Commit
    \/ RollbackTx
    \/ Upsert
    \/ RemovePath
    \/ UpdatePath
    \/ Snapshot
    \/ Restore

SpecTx == InitTx /\ [][NextTx]_vars

---------------------------------------------------------------------------
(* The change scanner in a tree that other processes change between scans  *)

\* deepest maxDepth a scan is given (0 is unlimited)
MaxDepth == 1
\* latest modification time another process gives a file, in ticks
MaxMtime == 3

ScanDirs == {BasePath, P(<<"d">>)}
PatternSets == {<<>>, <<Pattern(TRUE, "d")>>, <<Pattern(FALSE, "a")>>}
IndexablePaths == {P(<<"a">>), P(<<"l">>), P(<<"d", "a">>)}

ScanFrame == UNCHANGED <<tx, req, result, lastSuccessfulResults, fs0, index0, updateFailed,
                         snapshot, atBegin, atSnapshot, streamVars, workers>>

\* the last step was not a scan: no DirectoryChanges is held
NoScanHeld ==
    /\ changes' = NoChanges
    /\ scan' = NoScan
    /\ analyzed' = FALSE

Scanned(sc, r) ==
    /\ changes' = r.changes
    /\ lastErr' = r.err
    /\ scan' = sc
    /\ phase' = "scanned"
    /\ analyzed' = FALSE
    /\ lastCall' = NoCall
    /\ UNCHANGED <<fs, index, stamp>>
    /\ ScanFrame

\* a call of ScanDirectoryChanges
Scan ==
    \E dirPath \in ScanDirs, maxDepth \in 0..MaxDepth, patterns \in PatternSets :
        Scanned(ScanArgs(dirPath, maxDepth, patterns),
                ScanDirectoryChanges(fs, index, ScanArgs(dirPath, maxDepth, patterns)))

FileIndexed(p, r) ==
    /\ index' = r.index
    /\ lastErr' = r.err
    /\ stamp' = [stamp EXCEPT ![p] = IF r.err = "" THEN StatNode(fs, p).mt ELSE @]
    /\ phase' = "indexed"
    /\ lastCall' = NoCall
    /\ UNCHANGED fs
    /\ NoScanHeld
    /\ ScanFrame

\* a call of indexFile, the analyzer answering
IndexOne ==
    \E p \in IndexablePaths :
        /\ ~index[p].present
        /\ FileIndexed(p, indexFile(fs, index, p, [ok |-> TRUE, desc |-> "gen"]))

\* another process removes a file
EnvRemove ==
    \E p \in {P(<<"a">>), P(<<"d", "a">>)} :
        /\ fs[p].k = "file"
        /\ fs' = Remove(fs, p).fs
        /\ phase' = "env"
        /\ lastErr' = ""
        /\ lastCall' = NoCall
        /\ UNCHANGED <<index, stamp>>
        /\ NoScanHeld
        /\ ScanFrame

\* another process writes a file
EnvTouch ==
    \E p \in {P(<<"a">>)} :
        /\ fs[p].k = "file"
        /\ fs[p].mt < MaxMtime
        /\ fs' = [fs EXCEPT ![p].mt = @ + 1]
        /\ phase' = "env"
        /\ lastErr' = ""
        /\ lastCall' = NoCall
        /\ UNCHANGED <<index, stamp>>
        /\ NoScanHeld
        /\ ScanFrame

DirectoryIndexed(sc, analysis, r) ==
    /\ index' = r.index
    /\ changes' = r.changes
    /\ lastErr' = r.err
    /\ scan' = sc
    /\ analyzed' = analysis.ok
    /\ stamp' = [q \in PathU |->
                   IF ~r.index[q].present THEN 0
                   ELSE IF /\ r.err = "" /\ analysis.ok /\ Stat(fs, q).err = ""
                           /\ q \in r.changes.NewFiles \cup r.changes.ModifiedFiles
                     THEN StatNode(fs, q).mt
                   ELSE stamp[q]]
    /\ phase' = "dirIndexed"
    /\ lastCall' = NoCall
    /\ UNCHANGED fs
    /\ ScanFrame

\* a call of IndexDirectory
IndexDir ==
    \E dirPath \in ScanDirs, maxDepth \in 0..MaxDepth, patterns \in PatternSets,
       analysis \in Analyses :
        DirectoryIndexed(ScanArgs(dirPath, maxDepth, patterns), analysis,
                         IndexDirectory(fs, index, ScanArgs(dirPath, maxDepth, patterns),
                                        analysis))

\* a call of NeedsReindexing
CheckReindex ==
    /\ \E p \in IndexablePaths :
         lastCall' = [fn |-> "NeedsReindexing", path |-> p,
                      ret |-> NeedsReindexing(fs, index, p)]
    /\ phase' = "checked"
    /\ lastErr' = lastCall'.ret.err
    /\ UNCHANGED <<fs, index, stamp>>
    /\ NoScanHeld
    /\ ScanFrame

NextScan ==
    \/ Scan
    \/ IndexDir
    \/ CheckReindex
    \/ IndexOne
    \/ EnvRemove
    \/ EnvTouch

SpecScan == Init /\ [][NextScan]_vars

---------------------------------------------------------------------------
(* The streaming parser.  Streamed content is a sequence of symbols: "A1"  *)
(* and "A2" are the two halves of the JSON object of one operation, "B"    *)
(* "C" and "E" are whole JSON objects, Fence is a markdown code fence and *)
(* NL the newline.  The alphabet has no blank and no comma, so TrimSpace and  *)
(* TrimSuffix(",") leave every line of it as it is.                        *)

\* longest content streamed in one response, in symbols
MaxText == 4
\* longest content of one chunk, in symbols
MaxChunk == 3

NL == "\n"
\* the markdown code fence, three backquotes
Fence == "fence"
Sym == {"A1", "A2", "B", "C", "E", Fence, NL}

\* json.Unmarshal of a line into a FileOperation: the objects the symbols
\* spell, with from and to as the response wrote them; anything else is a
\* syntax error
Unmarshal(line) ==
    IF line = <<"A1", "A2">> THEN [ok |-> TRUE, op |-> Op(<<"a">>, <<"d", "a">>)]
    ELSE IF line = <<"B">> THEN [ok |-> TRUE, op |-> Op(<<"b">>, <<"n", "a">>)]
    ELSE IF line = <<"C">> THEN [ok |-> TRUE, op |-> Op(<<"a">>, <<"d", "..", "a">>)]
    ELSE IF line = <<"E">> THEN [ok |-> TRUE, op |-> Op(<<"a">>, <<"..", "a">>)]
    ELSE [ok |-> FALSE, op |-> Op(<<>>, <<>>)]

\* strings.TrimPrefix, strings.TrimSuffix for a one-symbol affix
TrimPrefix(str, x) == IF str # <<>> /\ Head(str) = x THEN Tail(str) ELSE str
TrimSuffix(str, x) == IF str # <<>> /\ str[Len(str)] = x THEN SubSeq(str, 1, Len(str) - 1) ELSE str

\* a comparison that lets identical endpoints through
AcceptIdentical(op) == [op |-> op, err |-> ""]

\* parseSingleOperation: the comparison of the sanitized paths
Compared(op) ==
    [op |-> op, err |-> IF op.From = op.To THEN "source and destination are identical" ELSE ""]

\* parseSingleOperation after json.Unmarshal returned u
Sanitized(u, basePath) ==
    IF ~u.ok THEN [op |-> u.op, err |-> "json"]
    ELSE Compared(Op(Clean(Join(basePath, u.op.From)), Clean(Join(basePath, u.op.To))))

\* OpenAIService.parseSingleOperation
parseSingleOperation(jsonLine, basePath) ==
    Sanitized(Unmarshal(TrimSuffix(TrimPrefix(jsonLine, Fence), Fence)), basePath)

\* strings.Split(str, "\n")
RECURSIVE SplitFrom(_, _)
SplitFrom(cur, rest) ==
    IF rest = <<>> THEN <<cur>>
    ELSE IF Head(rest) = NL THEN <<cur>> \o SplitFrom(<<>>, Tail(rest))
    ELSE SplitFrom(Append(cur, Head(rest)), Tail(rest))

Split(str) == SplitFrom(<<>>, str)

\* strings.Contains(str, "\n")
ContainsNewline(str) == \E i \in DOMAIN str : str[i] = NL

\* an append that drops an operation the list already holds
AppendedOnce(acc, r) ==
    IF r.err = "" /\ \A i \in DOMAIN acc.operations : acc.operations[i] # r.op
      THEN [operations |-> Append(acc.operations, r.op),
            delivered |-> Append(acc.delivered, r.op)]
    ELSE acc

\* processStream on the outcome r of parseSingleOperation: the operation is
\* appended to the list and passed to the callback, or the line is skipped;
\* acc is [operations, delivered]
Appended(acc, r) ==
    IF r.err = "" THEN [operations |-> Append(acc.operations, r.op),
                        delivered |-> Append(acc.delivered, r.op)]
    ELSE acc

\* a loop over the complete parts that stops at the first line it cannot parse
RECURSIVE ProcessPartsAborting(_, _, _)
ProcessPartsAborting(parts, basePath, acc) ==
    IF Len(parts) <= 1 THEN acc
    ELSE IF Head(parts) # <<>> /\ parseSingleOperation(Head(parts), basePath).err = "json"
      THEN acc
    ELSE ProcessPartsAborting(Tail(parts), basePath,
                              IF Head(parts) = <<>> THEN acc
                              ELSE Appended(acc, parseSingleOperation(Head(parts), basePath)))

\* processStream: the loop over the complete parts (all but the last)
RECURSIVE ProcessParts(_, _, _)
ProcessParts(parts, basePath, acc) ==
    IF Len(parts) <= 1 THEN acc
    ELSE ProcessParts(Tail(parts), basePath,
                      IF Head(parts) = <<>> THEN acc
                      ELSE Appended(acc, parseSingleOperation(Head(parts), basePath)))

\* the complete parts are processed and the buffer is emptied
BufferedEmptied(parts, basePath, acc) ==
    [buffer |-> <<>>, acc |-> ProcessParts(parts, basePath, acc)]

\* processStream: the complete parts are processed, the last part is kept
Buffered(parts, basePath, acc) ==
    [buffer |-> parts[Len(parts)], acc |-> ProcessParts(parts, basePath, acc)]

\* processStream: the body of the loop for a chunk with content, currentStr
\* being the buffer after buffer.WriteString(content)
ContentWritten(currentStr, basePath, acc) ==
    IF ContainsNewline(currentStr) THEN Buffered(Split(currentStr), basePath, acc)
    ELSE [buffer |-> currentStr, acc |-> acc]

\* a return that leaves what remains in the buffer unparsed
Unflushed(buf, basePath, acc) == acc

\* processStream after the loop: what remains in the buffer is parsed as a
\* last line, its error dropped
Remaining(buf, basePath, acc) ==
    IF buf = <<>> THEN acc ELSE Appended(acc, parseSingleOperation(buf, basePath))

StreamFrame == UNCHANGED <<fs, index, tx, req, result, lastSuccessfulResults, fs0, index0,
                           updateFailed, snapshot, changes, atBegin, atSnapshot, scan,
                           analyzed, stamp, lastCall, workers>>

Contents == UNION {[1..n -> Sym] : n \in 1..MaxChunk}

InitStream ==
    /\ fs = EmptyTree
    /\ index = EmptyIndex
    /\ Idle

ChunkRead(content, r) ==
    /\ buffer' = r.buffer
    /\ streamOps' = r.acc.operations
    /\ delivered' = r.acc.delivered
    /\ text' = text \o content
    /\ phase' = "reading"
    /\ UNCHANGED <<dropped, lastErr>>
    /\ StreamFrame

\* one turn of the scanner loop: a chunk that decodes, with content
Chunk ==
    /\ phase \in {"idle", "reading"}
    /\ \E content \in Contents :
         /\ Len(text) + Len(content) <= MaxText
         /\ ChunkRead(content,
                      ContentWritten(buffer \o content, BasePath,
                                     [operations |-> streamOps, delivered |-> delivered]))

\* one turn of the scanner loop that continues: a line without "data: ",
\* a chunk json.Unmarshal rejects, a chunk without choices or content
SkipChunk ==
    /\ phase \in {"idle", "reading"}
    /\ \E kind \in {"noprefix", "undecodable", "nochoices", "empty"} :
         dropped' = (dropped \/ kind = "undecodable")
    /\ phase' = "reading"
    /\ UNCHANGED <<buffer, streamOps, delivered, text, lastErr>>
    /\ StreamFrame

StreamEnded(end, acc) ==
    /\ streamOps' = acc.operations
    /\ delivered' = acc.delivered
    /\ lastErr' = IF end = "readerr" THEN "stream reading error" ELSE ""
    /\ phase' = IF end = "readerr" THEN "readFailed" ELSE "returned"
    /\ UNCHANGED <<buffer, text, dropped>>
    /\ StreamFrame

\* the loop ends (end of input, "[DONE]", or the scanner's error) and
\* processStream returns
EndStream ==
    /\ phase \in {"idle", "reading"}
    /\ \E end \in {"eof", "done", "readerr"} :
         StreamEnded(end, Remaining(buffer, BasePath,
                                    [operations |-> streamOps, delivered |-> delivered]))

NextStream ==
    \/ Chunk
    \/ SkipChunk
    \/ EndStream

SpecStream == InitStream /\ [][NextStream]_vars

---------------------------------------------------------------------------
(* Functions of their arguments alone, called with arguments drawn from    *)
(* bounded sets                                                            *)

\* longest relative path ShouldIgnore is asked about, in segments
MaxSegments == 3

CallFrame == UNCHANGED <<fs, index, tx, req, result, lastSuccessfulResults, fs0, index0,
                         updateFailed, snapshot, lastErr, changes, atBegin, atSnapshot,
                         scan, analyzed, streamVars, stamp, workers>>

RuleNames == {"a", "d", "*", "?", "[ad]", "{a,d}"}
RelPaths == UNION {[1..n -> {"a", "d", "n"}] : n \in 1..MaxSegments}

\* a matcher holding one rule is asked about a path
AskIgnore ==
    /\ phase = "idle"
    /\ \E d \in BOOLEAN, n \in RuleNames, rel \in RelPaths, isDir \in BOOLEAN :
         lastCall' = [fn |-> "ShouldIgnore", pattern |-> Pattern(d, n), path |-> rel,
                      isDir |-> isDir, ret |-> ShouldIgnore(<<Pattern(d, n)>>, rel, isDir)]
    /\ phase' = "asked"
    /\ CallFrame

\* a base directory below the root, and endpoints inside it, beside it,
\* above it and under another root directory
ScopeBase == <<"w", "p">>
ScopeEnds == { <<"w", "p", "a">>, <<"w", "p", "d", "a">>, <<"w", "p", "..x", "a">>,
               <<"w", "p">>, <<"w", "a">>, <<"w", "q", "a">>, <<"x", "a">>, <<"a">> }
ScopeOps == {Op(f, t) : <<f, t>> \in {x \in ScopeEnds \X ScopeEnds : x[1] # x[2]}}

\* determineVerificationScope is asked about a batch
AskScope ==
    /\ phase = "idle"
    /\ \E batch \in UNION {[1..n -> ScopeOps] : n \in 1..MaxOps} :
         lastCall' = [fn |-> "determineVerificationScope", operations |-> batch,
                      basePath |-> ScopeBase,
                      ret |-> determineVerificationScope(batch, ScopeBase)]
    /\ phase' = "asked"
    /\ CallFrame

\* the rows and the directories of the listing calls
ListRows == {<<"w", "d">>, <<"w", "d", "a">>, <<"w", "dd", "a">>, <<"w", "D", "a">>,
             <<"w", "_", "a">>}
ListDirs == {<<"w">>, <<"w", "d">>, <<"w", "d", ".">>, <<"w", "dd">>, <<"w", "D">>,
             <<"w", "_">>}

\* the index holding exactly the rows of S
IndexHolding(S) == [q \in ListRows |-> [NoRow EXCEPT !.present = q \in S]]

\* the rows under a directory are listed
AskList ==
    /\ phase = "idle"
    /\ \E S \in SUBSET ListRows, D \in ListDirs :
         lastCall' = [fn |-> "GetIndexedFilesInDirectory", rows |-> S, dirPath |-> D,
                      ret |-> GetIndexedFilesInDirectory(IndexHolding(S), D)]
    /\ phase' = "asked"
    /\ CallFrame

\* the paths of the trees ExecuteOperation is called on: the universe and
\* a directory two levels below the base directory
ExecU == PathU \cup {<<"w", "n", "n">>, <<"w", "n", "n", "a">>}

\* a tree of the universe, nothing at the deeper paths
Extended(t) == [q \in ExecU |-> IF q \in PathU THEN t[q] ELSE None]

\* the initial trees; a tree with a valid link and a dangling one; a tree
\* where w/d/a is a link to the directory w/n; a tree with a link whose
\* target is absolute
ExecTrees ==
    {Extended(t) : t \in InitTrees} \cup
    { [Extended(EmptyTree) EXCEPT ![P(<<"a">>)] = FileNode(1, 2),
                                  ![P(<<"l">>)] = LinkNode(2, [abs |-> TRUE, segs |-> P(<<"a">>)]),
                                  ![P(<<"d">>)] = DirNode],
      [Extended(EmptyTree) EXCEPT ![P(<<"a">>)] = FileNode(1, 2),
                                  ![P(<<"l">>)] = LinkNode(2, RelTarget(<<"a">>)),
                                  ![P(<<"b">>)] = LinkNode(6, RelTarget(<<"n">>)),
                                  ![P(<<"d">>)] = DirNode],
      [Extended(EmptyTree) EXCEPT ![P(<<"a">>)] = FileNode(1, 2),
                                  ![P(<<"l">>)] = LinkNode(2, RelTarget(<<"a">>)),
                                  ![P(<<"d">>)] = DirNode,
                                  ![P(<<"d", "a">>)] = LinkNode(7, RelTarget(<<"..", "n">>)),
                                  ![P(<<"n">>)] = DirNode] }

\* the operations: between the paths of the trees, from below a regular
\* file, to below the link w/d/a
ExecOps ==
    {Op(f, t) : <<f, t>> \in {x \in (ExecU \ {BasePath}) \X (ExecU \ {BasePath}) : x[1] # x[2]}}
    \cup {Op(<<"w", "a", "a">>, <<"w", "n", "a">>),
          Op(<<"w", "l">>, <<"w", "d", "a", "a">>),
          Op(<<"w", "a">>, <<"w", "d", "a", "n", "a">>)}

\* a call of ExecuteOperation
AskExecute ==
    /\ phase = "idle"
    /\ \E f \in ExecTrees, op \in ExecOps :
         lastCall' = [fn |-> "ExecuteOperation", fs |-> f, op |-> op,
                      ret |-> ExecuteOperation(f, op)]
    /\ phase' = "asked"
    /\ CallFrame

\* the trees of the batch calls: the base directory gone; files, a link and
\* a directory; a directory w/n that holds a link to the directory above it
BatchTrees ==
    { Extended([q \in PathU |-> None]),
      [Extended(EmptyTree) EXCEPT ![P(<<"a">>)] = FileNode(1, 2),
                                  ![P(<<"l">>)] = LinkNode(2, RelTarget(<<"a">>)),
                                  ![P(<<"d">>)] = DirNode,
                                  ![P(<<"d", "a">>)] = FileNode(3, 2)],
      [Extended(EmptyTree) EXCEPT ![P(<<"b">>)] = FileNode(4, 2),
                                  ![P(<<"n">>)] = DirNode,
                                  ![P(<<"n", "a">>)] = LinkNode(8, RelTarget(<<"..">>))] }

\* the operations of the batch calls; the last one names w/n and w/d
\* through the link w/n/a
BatchOps ==
    {Op(P(<<"a">>), P(<<"n", "n", "a">>)), Op(P(<<"b">>), P(<<"a">>)),
     Op(P(<<"n", "a", "n">>), P(<<"n", "a", "d">>))}

\* a call of ExecuteOperations
AskExecuteOperations ==
    /\ phase = "idle"
    /\ \E f \in BatchTrees, basePath \in {BasePath, P(<<"n">>)}, cleanEmpty \in BOOLEAN,
          batch \in UNION {[1..n -> BatchOps] : n \in 1..MaxOps} :
         lastCall' = [fn |-> "ExecuteOperations", fs |-> f, operations |-> batch,
                      basePath |-> basePath, cleanEmpty |-> cleanEmpty,
                      ret |-> ExecuteOperations(f, batch, basePath, cleanEmpty)]
    /\ phase' = "asked"
    /\ CallFrame

\* the paths UpdateFilePath is asked about: a file, a link, nothing
UpdatePaths == {P(<<"a">>), P(<<"l">>), P(<<"b">>)}

\* a table whose rows, those of S, were written before the files changed
StaleIndex(S) ==
    [q \in PathU |-> IF q \in S THEN Row("orig", "other", 9, 0, NoTarget) ELSE NoRow]

\* the key of a row is rewritten
AskUpdatePath ==
    /\ phase = "idle"
    /\ \E f \in InitTrees, S \in SUBSET UpdatePaths, oldPath \in UpdatePaths,
          newPath \in UpdatePaths :
         lastCall' = [fn |-> "UpdateFilePath", fs |-> f, index |-> StaleIndex(S),
                      oldPath |-> oldPath, newPath |-> newPath,
                      ret |-> UpdateFilePath(f, StaleIndex(S), oldPath, newPath)]
    /\ phase' = "asked"
    /\ CallFrame

\* the paths of the trees CleanEmptyDirectories is called on
CleanU == {BasePath, P(<<"a">>), P(<<"d">>), P(<<"d", "a">>), P(<<"n">>), P(<<"n", "a">>),
           P(<<"n", "n">>), P(<<"n", "n", "a">>)}

\* the base directory is a directory, and every entry is in a directory
WellFormed(t) ==
    /\ t[BasePath] = DirNode
    /\ \A q \in CleanU \ {BasePath} : t[q].k # "none" => t[Dir(q)].k = "dir"

\* every tree of directories, files and links to w/d over these paths
CleanTrees ==
    {t \in [CleanU -> {None, DirNode, FileNode(1, 2), LinkNode(2, RelTarget(<<"d">>))}] :
        WellFormed(t)}

\* the empty directories below a directory are removed
AskClean ==
    /\ phase = "idle"
    /\ \E f \in CleanTrees, rootPath \in {BasePath, P(<<"n">>), P(<<"a">>)} :
         lastCall' = [fn |-> "CleanEmptyDirectories", fs |-> f, rootPath |-> rootPath,
                      ret |-> CleanEmptyDirectories(f, rootPath)]
    /\ phase' = "asked"
    /\ CallFrame

\* the batches of the executions that follow one another: a move, a
\* chain of two moves (the index update of the first finds nothing at its
\* destination), the moves back
OrgBatches ==
    {<<Op(P(<<"a">>), P(<<"b">>))>>,
     <<Op(P(<<"a">>), P(<<"b">>)), Op(P(<<"b">>), P(<<"n">>))>>,
     <<Op(P(<<"b">>), P(<<"a">>))>>,
     <<Op(P(<<"n">>), P(<<"a">>))>>}

\* the tree, the index and the transaction handle an execution starts
\* with: those of the construction, or those the execution before it left
OrgEntry ==
    IF phase = "idle" THEN [fs |-> Tree1, index |-> IndexOf(Tree1, {P(<<"a">>)}), tx |-> FALSE]
    ELSE [fs |-> lastCall.ret.fs, index |-> lastCall.ret.index, tx |-> lastCall.ret.tx]

\* an execution and the one after it on one index service, the database
\* answering each call or failing it
AskOrganize ==
    /\ phase = "idle" \/ (phase = "asked" /\ lastCall.fn = "ExecuteOrganization" /\ lastCall.first)
    /\ \E batch \in OrgBatches, analysis \in Analyses, db \in DbAnswers :
         /\ lastCall' = [fn |-> "ExecuteOrganization", first |-> phase = "idle",
                         tx |-> OrgEntry.tx,
                         operations |-> batch, db |-> db,
                         ret |-> ExecuteOrganization(OrgEntry.fs, OrgEntry.index, OrgEntry.tx,
                                                     Request(batch, FALSE), analysis, db)]
         /\ ~lastCall'.ret.ovf
    /\ phase' = "asked"
    /\ CallFrame

NextCall ==
    \/ AskIgnore
    \/ AskScope
    \/ AskList
    \/ AskExecute
    \/ AskExecuteOperations
    \/ AskUpdatePath
    \/ AskClean
    \/ AskOrganize

SpecCall == InitStream /\ [][NextCall]_vars

---------------------------------------------------------------------------
(* Goroutines on one index service.  MainWindow.onExecute and onRollback    *)
(* run ExecuteOrganization in a goroutine of their own; the index service   *)
(* has no lock, so the reads and writes of its field tx interleave.  The    *)
(* handle is.tx holds is 0 for nil or the worker whose db.Begin returned    *)
(* it; open is the set of handles begun and neither committed nor rolled    *)
(* back.                                                                    *)

RaceFrame == UNCHANGED <<fs, index, phase, req, result, lastSuccessfulResults, fs0, index0,
                         updateFailed, snapshot, lastErr, changes, atBegin, atSnapshot,
                         scan, analyzed, streamVars, stamp, lastCall>>

\* worker w moves to position pos; is.tx and the open handles become h, o
Moved(w, pos, h, o) ==
    /\ workers' = [pc |-> [workers.pc EXCEPT ![w] = pos], handle |-> h, open |-> o]
    /\ tx' = (h # 0)
    /\ RaceFrame

\* BeginTransaction: the test is.tx != nil
BeginCheck(w) ==
    /\ workers.pc[w] = "ready"
    /\ Moved(w, IF workers.handle # 0 THEN "refused" ELSE "checked",
             workers.handle, workers.open)

\* BeginTransaction: db.Begin()
BeginDb(w) ==
    /\ workers.pc[w] = "checked"
    /\ \E dbOk \in BOOLEAN :
         Moved(w, IF dbOk THEN "opened" ELSE "failed", workers.handle,
               IF dbOk THEN workers.open \cup {w} ELSE workers.open)

\* BeginTransaction: is.tx = tx, and the return of nil
BeginAssign(w) ==
    /\ workers.pc[w] = "opened"
    /\ Moved(w, "begun", w, workers.open)

\* CommitTransaction or RollbackTransaction: the test is.tx == nil
EndCheck(w) ==
    /\ workers.pc[w] = "begun"
    /\ Moved(w, IF workers.handle = 0 THEN "ended" ELSE "ending",
             workers.handle, workers.open)

\* CommitTransaction or RollbackTransaction: is.tx.Commit() or
\* is.tx.Rollback(), on the handle is.tx holds now (a nil handle panics)
EndDb(w) ==
    /\ workers.pc[w] = "ending"
    /\ Moved(w, IF workers.handle = 0 THEN "panicked" ELSE "clearing",
             workers.handle, workers.open \ {workers.handle})

\* CommitTransaction or RollbackTransaction: is.tx = nil
EndClear(w) ==
    /\ workers.pc[w] = "clearing"
    /\ Moved(w, "ended", 0, workers.open)

NextRace ==
    \E w \in Workers :
        \/ BeginCheck(w)
        \/ BeginDb(w)
        \/ BeginAssign(w)
        \/ EndCheck(w)
        \/ EndDb(w)
        \/ EndClear(w)

SpecRace == InitTx /\ [][NextRace]_vars

\* the workers whose BeginTransaction returned nil and who have not yet
\* returned from CommitTransaction or RollbackTransaction
Holding == {w \in Workers : workers.pc[w] \in {"begun", "ending", "clearing"}}

\* C40: under interleaving at most one BeginTransaction has succeeded and
\* not yet been committed or rolled back, and every transaction open in
\* the database is the one is.tx holds or the one its worker is about to
\* store there: none is overwritten (under SpecRace)
C40_OneOpenTransaction ==
    /\ Cardinality(Holding) <= 1
    /\ \A h \in workers.open : workers.handle = h \/ workers.pc[h] = "opened"

---------------------------------------------------------------------------
(* Properties of the execution engine and its undo (under Spec)            *)

IsFile(node) == node.k \in {"file", "link"}
FilePaths(f) == {q \in PathU : IsFile(f[q])}
FileIds(f) == {f[q].id : q \in FilePaths(f)}
DirPaths(f) == {q \in PathU : f[q].k = "dir"}

\* C1: whenever ExecuteOperations has returned for a batch inside the base
\* directory, the file count before the batch equals the count after it
C1_CountsEqual ==
    phase = "executed" => result.InitialFileCount = result.FinalFileCount

\* C2: after a batch every file or link that existed before still exists
\* (at its old path, or moved), and no file exists that did not: nothing is
\* deleted, overwritten or created
C2_OnlyMoves ==
    phase = "executed" =>
        /\ \A q \in FilePaths(fs0) :
              \E r \in FilePaths(fs) : fs[r].id = fs0[q].id /\ fs[r].k = fs0[q].k
        /\ FileIds(fs) \subseteq FileIds(fs0)

AllSucceeded ==
    /\ req.Operations # <<>>
    /\ Len(lastSuccessfulResults) = Len(req.Operations)

\* C3: after a batch whose operations all succeeded and its undo, the set
\* of file paths is the original one and every path that had an index row
\* has a row with its original description
C3_UndoRestores ==
    (phase = "rolledback" /\ AllSucceeded) =>
        /\ FilePaths(fs) = FilePaths(fs0)
        /\ \A q \in PathU : index0[q].present =>
              index[q].present /\ index[q].desc = index0[q].desc

\* C4: after a batch and its undo the tree holds the original files and no
\* directory that did not exist before the batch
C4_UndoRemovesCreatedDirs ==
    phase = "rolledback" =>
        /\ DirPaths(fs) \subseteq DirPaths(fs0)
        /\ \A q \in FilePaths(fs0) : IsFile(fs[q]) /\ fs[q].id = fs0[q].id

\* where the file that was at q before the batch is now
NowAt(q) == {r \in FilePaths(fs) : fs[r].id = fs0[q].id}

\* C5: when ExecuteOrganization returns, every file indexed before the
\* batch is indexed where it now is, and every row is at a path with a file
C5_IndexFollowsFiles ==
    phase = "executed" =>
        /\ \A q \in FilePaths(fs0) : index0[q].present =>
              \A r \in NowAt(q) : index[r].present
        /\ \A r \in PathU : index[r].present => IsFile(fs[r])

\* C6: when the index update failed, the row (or its absence) at every
\* from and to path of the batch is what it was before the batch
C6_FailedUpdateLeavesNothing ==
    (phase = "executed" /\ updateFailed) =>
        \A q \in OpPaths(req.Operations) : index[q] = index0[q]

\* the result records one entry per operation of the request, in its order,
\* and the two counters add up to the number of operations
EveryOperationRecorded ==
    /\ Len(result.Operations) = Len(req.Operations)
    /\ \A i \in DOMAIN result.Operations : result.Operations[i].Operation = req.Operations[i]
    /\ result.SuccessCount + result.FailCount = Len(req.Operations)

\* C17, as stated: after ExecuteOperations the result has one entry per
\* operation of the batch, in input order, and SuccessCount + FailCount is
\* the number of operations
C17_AllAttemptedAsStated ==
    phase = "executed" => EveryOperationRecorded

\* C17, amended: when the files of the verification scope could be counted
\* before the batch, every operation is attempted whatever the earlier ones
\* did: one entry per operation, in input order, the counters adding up
C17_AllAttempted ==
    (phase = "executed" /\ CountFiles(fs0, req.BasePath).err = "") => EveryOperationRecorded

C17_Witness ==
    /\ phase = "executed"
    /\ Len(result.Operations) = 2
    /\ ~result.Operations[1].Success
    /\ result.Operations[2].Success

---------------------------------------------------------------------------
(* Properties of the index store (under SpecTx)                            *)

\* C7: one open transaction at most.  begin with a transaction open fails
\* and changes nothing; commit and rollback with none open fail; a commit
\* or rollback of an open transaction closes it, whatever the database
\* answers; begin with none open opens one (unless db.Begin itself fails)
C7_SingleTransaction ==
    [][ /\ (phase' = "begin" /\ tx) =>
              (lastErr' = "transaction already in progress" /\ tx' /\ index' = index)
        /\ (phase' \in {"commit", "rollback"} /\ ~tx) =>
              (lastErr' = "no transaction in progress" /\ ~tx')
        /\ (phase' \in {"commit", "rollback"} /\ tx) => ~tx'
        /\ (phase' = "begin" /\ ~tx) =>
              \/ tx' /\ lastErr' = ""
              \/ ~tx' /\ lastErr' = "failed to begin transaction" ]_vars

\* a second begin was refused while a transaction is open
C7_Witness ==
    phase = "begin" /\ tx /\ lastErr = "transaction already in progress"

\* C8: what is done to the index between begin and rollback is discarded,
\* what is done between begin and a successful commit persists
C8_TransactionsAtomic ==
    [][ /\ (phase' = "rollback" /\ tx /\ lastErr' = "") => index' = atBegin
        /\ (phase' = "commit" /\ tx /\ lastErr' = "") => index' = index ]_vars

\* C9: after a successful restore of a snapshot, every from and to path of
\* its batch has exactly the row, or the absence of a row, it had when the
\* snapshot was taken
C9_RestoreExact ==
    (phase = "restore" /\ lastErr = "") =>
        \A q \in OpPaths(req.Operations) : index[q] = atSnapshot[q]

\* the row UpdateFilePath leaves at the new key: description and file type
\* of the old row, size, modification time (in seconds) and symlink target
\* of the file now at the new path
Refreshed(f, row, newPath) ==
    Row(row.desc, row.ftype, LstatNode(f, newPath).sz, Unix(LstatNode(f, newPath).mt),
        IF LstatNode(f, newPath).k = "link" THEN LstatNode(f, newPath).tgt ELSE NoTarget)

\* C32: a successful updatePath(old, new), old indexed and new not, leaves
\* no row at old and at new the old row refreshed from the live file, every
\* other row as it was; an updatePath onto a key that has a row fails and
\* changes nothing, so no key ever has two rows (under SpecCall)
C32_PathUpdated ==
    lastCall.fn = "UpdateFilePath" =>
        /\ (lastCall.ret.err = "" /\ lastCall.index[lastCall.oldPath].present
                /\ ~lastCall.index[lastCall.newPath].present) =>
              /\ ~lastCall.ret.index[lastCall.oldPath].present
              /\ lastCall.ret.index[lastCall.newPath] =
                     Refreshed(lastCall.fs, lastCall.index[lastCall.oldPath], lastCall.newPath)
              /\ \A q \in PathU \ {lastCall.oldPath, lastCall.newPath} :
                     lastCall.ret.index[q] = lastCall.index[q]
        /\ (lastCall.oldPath # lastCall.newPath /\ lastCall.index[lastCall.oldPath].present
                /\ lastCall.index[lastCall.newPath].present) =>
              (lastCall.ret.err # "" /\ lastCall.ret.index = lastCall.index)

\* the row of w/a was moved to the key of the link w/l
C32_Witness ==
    /\ lastCall.fn = "UpdateFilePath"
    /\ lastCall.ret.err = ""
    /\ lastCall.index[lastCall.oldPath].present
    /\ ~lastCall.index[lastCall.newPath].present
    /\ lastCall.ret.index[lastCall.newPath].symlink # NoTarget
    /\ lastCall.ret.index[lastCall.newPath].size # lastCall.index[lastCall.oldPath].size

\* the directories below base that hold nothing but directories, at any depth
OnlyDirectories(f, base) ==
    {q \in DOMAIN f :
        /\ IsPrefix(base, q) /\ q # base /\ f[q].k = "dir"
        /\ \A r \in DOMAIN f : IsPrefix(q, r) => f[r].k \in {"dir", "none"}}

\* C33: CleanEmptyDirectories(base) removes exactly the directories below
\* base that hold nothing but (transitively) empty directories, a parent
\* emptied by the removal of its children included; base, files, links and
\* directories that hold a file or a link stay, and the count it returns is
\* the number of directories removed (under SpecCall)
C33_EmptyDirsRemoved ==
    (lastCall.fn = "CleanEmptyDirectories" /\ lastCall.ret.err = "") =>
        /\ \A q \in DOMAIN lastCall.fs :
              lastCall.ret.fs[q] =
                 IF q \in OnlyDirectories(lastCall.fs, lastCall.rootPath) THEN None
                 ELSE lastCall.fs[q]
        /\ lastCall.ret.removed = Cardinality(OnlyDirectories(lastCall.fs, lastCall.rootPath))

\* a directory that held only an empty directory was removed after its
\* child, beside a directory that holds a file
C33_Witness ==
    /\ lastCall.fn = "CleanEmptyDirectories"
    /\ lastCall.ret.err = ""
    /\ lastCall.rootPath = BasePath
    /\ lastCall.fs[P(<<"n", "n">>)].k = "dir"
    /\ lastCall.fs[P(<<"d", "a">>)].k = "file"
    /\ lastCall.ret.fs[P(<<"n">>)].k = "none"
    /\ lastCall.ret.fs[P(<<"d">>)].k = "dir"
    /\ lastCall.ret.removed >= 2

\* C39: ExecuteOrganization, and RestoreSnapshot within it, return with no
\* transaction open on every path (nothing moved, begin failure, commit,
\* commit failure, update failure with rollback or rollback failure, restore
\* with begin, replay or commit failure), so the next execution never finds
\* a transaction open (under SpecCall)
C39_NoTransactionLeft ==
    lastCall.fn = "ExecuteOrganization" => (~lastCall.tx /\ ~lastCall.ret.tx)

\* the index update failed, the rollback failed and a step of the replay
\* failed
C39_Witness ==
    /\ lastCall.fn = "ExecuteOrganization"
    /\ lastCall.ret.updateFailed
    /\ lastCall.db.begin /\ ~lastCall.db.rollback /\ lastCall.db.restoreBegin
    /\ ~lastCall.db.replay
    /\ \E i \in DOMAIN lastCall.operations : lastCall.ret.index[lastCall.operations[i].From].present
    /\ ~lastCall.ret.tx

---------------------------------------------------------------------------
(* Properties of the change scanner (under SpecScan)                       *)

InScanScope(q) ==
    /\ IsPrefix(scan.dirPath, q)
    /\ scan.maxDepth = 0 \/ Depth(scan.dirPath, q) <= scan.maxDepth

\* q, or a directory between the scanned directory and q, matches a rule
IgnoredInScan(q) ==
    \E n \in (Len(scan.dirPath) + 1)..Len(q) :
        ShouldIgnore(scan.patterns, Rel(scan.dirPath, SubSeq(q, 1, n)),
                     fs[SubSeq(q, 1, n)].k = "dir")

ScopeFiles == {q \in FilePaths(fs) : InScanScope(q) /\ ~IgnoredInScan(q)}
ScopeIndexed == {q \in PathU : index[q].present /\ InScanScope(q)}

\* C10: the four sets of a scan result are pairwise disjoint and their
\* union is the non-ignored files in the scope with the indexed paths in
\* the scope
C10_ScanPartition ==
    (phase = "scanned" /\ lastErr = "") =>
        /\ changes.NewFiles \cap changes.ModifiedFiles = {}
        /\ changes.NewFiles \cap changes.UnchangedFiles = {}
        /\ changes.NewFiles \cap changes.DeletedFiles = {}
        /\ changes.ModifiedFiles \cap changes.UnchangedFiles = {}
        /\ changes.ModifiedFiles \cap changes.DeletedFiles = {}
        /\ changes.UnchangedFiles \cap changes.DeletedFiles = {}
        /\ changes.NewFiles \cup changes.ModifiedFiles \cup changes.UnchangedFiles
             \cup changes.DeletedFiles = ScopeFiles \cup ScopeIndexed

\* C11: a scan that follows IndexDirectory on the same directory with the
\* same depth and rules, the analyzer having answered and the tree not
\* having changed, reports every non-ignored file in the scope unchanged
\* and no new, modified or deleted path
C11_SecondScanUnchanged ==
    [][(/\ phase = "dirIndexed" /\ analyzed /\ lastErr = ""
        /\ phase' = "scanned" /\ scan' = scan /\ lastErr' = "")
        => /\ changes'.NewFiles = {}
           /\ changes'.ModifiedFiles = {}
           /\ changes'.DeletedFiles = {}
           /\ changes'.UnchangedFiles = ScopeFiles']_vars

\* the paths the scan put in the new, modified or unchanged list
ClassifiedOnDisk ==
    changes.NewFiles \cup changes.ModifiedFiles \cup changes.UnchangedFiles

\* C21: a scan with maxDepth > 0 classifies no file and reports no deleted
\* row deeper than maxDepth below the scanned directory; a scan with
\* maxDepth = 0 classifies the non-ignored files and reports the rows
\* without a file at every depth
C21_DepthSymmetric ==
    (phase = "scanned" /\ lastErr = "") =>
        /\ scan.maxDepth > 0 =>
              \A q \in ClassifiedOnDisk \cup changes.DeletedFiles :
                  Depth(scan.dirPath, q) <= scan.maxDepth
        /\ scan.maxDepth = 0 =>
              /\ \A q \in FilePaths(fs) :
                    (/\ IsPrefix(scan.dirPath, q) /\ ~IgnoredInScan(q)
                     /\ index[q].present => Stat(fs, q).err = "")
                        => q \in ClassifiedOnDisk
              /\ \A q \in PathU :
                    (index[q].present /\ IsPrefix(scan.dirPath, q) /\ fs[q].k = "none")
                        => q \in changes.DeletedFiles

C21_Witness ==
    /\ phase = "scanned" /\ lastErr = ""
    /\ scan.maxDepth = 1
    /\ ClassifiedOnDisk # {}
    /\ \E r \in PathU :
         /\ Depth(scan.dirPath, r) = 2 /\ index[r].present /\ fs[r].k = "none"
         /\ r \notin changes.DeletedFiles

\* the entry at q is below the scanned directory and matches a rule
MatchedInScan(q, isDir) ==
    /\ q # scan.dirPath /\ IsPrefix(scan.dirPath, q)
    /\ ShouldIgnore(scan.patterns, Rel(scan.dirPath, q), isDir)

\* C22: nothing beneath a directory that matches a rule is classified as
\* new, modified or unchanged; a file that matches a rule is not classified
\* and the non-ignored files beside it are
C22_IgnoredSubtreeSkipped ==
    (phase = "scanned" /\ lastErr = "") =>
        /\ \A d \in DirPaths(fs) :
              MatchedInScan(d, TRUE) => \A q \in ClassifiedOnDisk : ~IsPrefix(d, q)
        /\ \A p \in FilePaths(fs) :
              MatchedInScan(p, FALSE) =>
                  /\ p \notin ClassifiedOnDisk
                  /\ \A q \in FilePaths(fs) :
                        (/\ Dir(q) = Dir(p) /\ InScanScope(q) /\ ~IgnoredInScan(q)
                         /\ index[q].present => Stat(fs, q).err = "")
                            => q \in ClassifiedOnDisk

C22_Witness ==
    /\ phase = "scanned" /\ lastErr = ""
    /\ scan.dirPath = BasePath
    /\ IsFile(fs[P(<<"a">>)]) /\ MatchedInScan(P(<<"a">>), FALSE)
    /\ \E q \in ClassifiedOnDisk : Dir(q) = BasePath

\* C31: a scan that returns a result returns it complete: a file in the
\* scope whose stat fails makes the scan return the error, so every
\* non-ignored file in the scope is in one of the lists of a result
C31_NoSilentMiss ==
    (phase = "scanned" /\ lastErr = "") => \A q \in ScopeFiles : q \in ClassifiedOnDisk

\* C36: a path a scan reports as deleted has no file on disk at the time of
\* the scan, whatever rules the scan was given
C36_DeletedAbsent ==
    (phase = "scanned" /\ lastErr = "") =>
        \A q \in changes.DeletedFiles : Lstat(fs, q).err # ""

\* C37: when IndexDirectory has returned without error, no path its scan
\* reported deleted has a row, whether or not the scan found new or
\* modified files
C37_DeletedRowsRemoved ==
    (phase = "dirIndexed" /\ lastErr = "") =>
        \A q \in changes.DeletedFiles : ~index[q].present

\* C18: NeedsReindexing of a path without a row returns an error and no
\* answer
C18_UnindexedNotFound ==
    (phase = "checked" /\ ~index[lastCall.path].present) => lastCall.ret.err # ""

\* C19: for an indexed file, NeedsReindexing answers true exactly when the
\* file's modification time is not the one its row was indexed with: false
\* right after indexing, true after any change of the modification time
C19_ReindexIffMtimeChanged ==
    (phase = "checked" /\ index[lastCall.path].present /\ lastCall.ret.err = "") =>
        (lastCall.ret.needs <=> StatNode(fs, lastCall.path).mt # stamp[lastCall.path])

---------------------------------------------------------------------------
(* Properties of the streaming parser (under SpecStream)                   *)

\* a line without the code fence that may stand before or after it
Bare(line) == TrimSuffix(TrimPrefix(line, Fence), Fence)

\* the operation a well-formed line asks for, its paths joined to the base
\* directory and normalized
Requested(line) ==
    Op(Clean(Join(BasePath, Unmarshal(line).op.From)),
       Clean(Join(BasePath, Unmarshal(line).op.To)))

\* the line spells an operation whose endpoints differ
Deliverable(line) ==
    Unmarshal(line).ok /\ Requested(line).From # Requested(line).To

\* the operations of the deliverable lines, in the order of the lines
RECURSIVE ExpectedOps(_)
ExpectedOps(lines) ==
    IF lines = <<>> THEN <<>>
    ELSE (IF Deliverable(Bare(Head(lines))) THEN <<Requested(Bare(Head(lines)))>> ELSE <<>>)
           \o ExpectedOps(Tail(lines))

\* the lines of the content that a newline has ended
Complete(str) == SubSeq(Split(str), 1, Len(Split(str)) - 1)

\* C12: every operation delivered, to the callback and in the list, has
\* from # to after joining and normalizing; a line whose endpoints
\* normalize to one path is neither delivered nor an error, so the stream
\* returns as many operations as it has lines with distinct endpoints
C12_DistinctEndpoints ==
    /\ \A i \in DOMAIN delivered : delivered[i].From # delivered[i].To
    /\ \A i \in DOMAIN streamOps : streamOps[i].From # streamOps[i].To
    /\ phase = "returned" =>
         /\ lastErr = ""
         /\ Len(delivered) =
              Cardinality({i \in DOMAIN Split(text) : Deliverable(Bare(Split(text)[i]))})

C12_Witness ==
    /\ phase = "returned"
    /\ text = <<"B", NL, "C", NL>>
    /\ Len(delivered) = 1

\* C13: when the stream has ended without a read error, no error is
\* returned and every well-formed operation line of the content was
\* delivered, whatever malformed lines, fences or undecodable chunks came
\* before or after it
C13_MalformedSkipped ==
    phase = "returned" =>
        /\ lastErr = ""
        /\ \A i \in DOMAIN Split(text) :
             Deliverable(Split(text)[i]) =>
                 \E j \in DOMAIN delivered : delivered[j] = Requested(Split(text)[i])

C13_Witness ==
    /\ phase = "returned"
    /\ dropped
    /\ \E i, j \in DOMAIN Split(text) :
         /\ i < j
         /\ Split(text)[i] # <<>>
         /\ ~Unmarshal(Bare(Split(text)[i])).ok
         /\ Deliverable(Split(text)[j])
         /\ delivered = <<Requested(Split(text)[j])>>

\* C14: the list and the sequence of callback deliveries are equal at every
\* moment; while reading they are the operations of the completed lines in
\* the order of the lines, one per occurrence, and when the stream has
\* ended those of all the lines
C14_ArrivalOrder ==
    /\ streamOps = delivered
    /\ phase = "reading" => delivered = ExpectedOps(Complete(text))
    /\ phase \in {"returned", "readFailed"} => delivered = ExpectedOps(Split(text))

C14_Witness ==
    /\ phase = "returned"
    /\ Len(delivered) = 2
    /\ delivered[1] = delivered[2]

\* the content after the last newline: the line no newline has ended
Unterminated(str) == Split(str)[Len(Split(str))]

\* C34: when the stream ends, by the end marker, the end of input or a read
\* error, the content no newline has ended is what the accumulator holds;
\* it is parsed once as a last line and its operation, if it spells one, is
\* delivered after all earlier ones; once the stream has ended nothing more
\* is delivered
C34_FinalLine ==
    [][ /\ (phase \in {"idle", "reading"} /\ phase' \in {"returned", "readFailed"}) =>
              /\ buffer = Unterminated(text)
              /\ delivered' = delivered \o ExpectedOps(<<buffer>>)
              /\ streamOps' = delivered'
        /\ phase \in {"returned", "readFailed"} =>
              (delivered' = delivered /\ streamOps' = streamOps) ]_vars

\* a read error ended the stream in the middle of a second line, which was
\* delivered after the first
C34_Witness ==
    /\ phase = "readFailed"
    /\ text = <<"B", NL, "A1", "A2">>
    /\ buffer = <<"A1", "A2">>
    /\ delivered = <<Requested(<<"B">>), Requested(<<"A1", "A2">>)>>

\* nothing delivered yet
NoOps == [operations |-> <<>>, delivered |-> <<>>]

\* the buffer and the deliveries after str has arrived as one chunk
InOneChunk(str) == ContentWritten(str, BasePath, NoOps)

\* the deliveries when the stream ends after str has arrived as one chunk
EndedInOneChunk(str) == Remaining(InOneChunk(str).buffer, BasePath, InOneChunk(str).acc)

\* C35: the operations delivered for a content are those delivered when the
\* content arrives as one chunk, however it was split into chunks (inside a
\* JSON object, before or after a newline, several lines in a chunk), while
\* the stream is read and when it has ended
C35_SplitIndependent ==
    /\ phase = "reading" =>
          (buffer = InOneChunk(text).buffer /\ delivered = InOneChunk(text).acc.delivered)
    /\ phase \in {"returned", "readFailed"} => delivered = EndedInOneChunk(text).delivered

\* a content longer than a chunk, two lines of it delivered
C35_Witness ==
    /\ phase = "returned"
    /\ text = <<"A1", "A2", NL, "B">>
    /\ delivered = <<Requested(<<"A1", "A2">>), Requested(<<"B">>)>>

\* C38: every operation delivered has from and to inside the base
\* directory: the base directory itself or a path beneath it, whatever
\* "." and ".." segments the response wrote
C38_InsideBase ==
    \A i \in DOMAIN delivered :
        IsPrefix(BasePath, delivered[i].From) /\ IsPrefix(BasePath, delivered[i].To)

---------------------------------------------------------------------------
(* Properties of functions of their arguments alone (under SpecCall)       *)

\* the rule's name is plain text: no "*", "?", class or alternation
Literal(name) == name \notin {"*", "?", "[ad]", "{a,d}"}

Parents(batch) ==
    {Dir(Clean(batch[i].From)) : i \in DOMAIN batch}
      \cup {Dir(Clean(batch[i].To)) : i \in DOMAIN batch}

\* C16: the scope is the base directory alone when every endpoint's parent
\* directory is inside the base directory; otherwise it is one directory,
\* at or above the base directory and at or above every endpoint's parent
C16_ScopeCovers ==
    lastCall.fn = "determineVerificationScope" =>
        IF \A d \in Parents(lastCall.operations) : IsPrefix(lastCall.basePath, d)
          THEN lastCall.ret = {lastCall.basePath}
        ELSE /\ Cardinality(lastCall.ret) = 1
             /\ \A r \in lastCall.ret :
                  /\ IsPrefix(r, lastCall.basePath)
                  /\ \A d \in Parents(lastCall.operations) : IsPrefix(r, d)

C16_Witness ==
    /\ lastCall.fn = "determineVerificationScope"
    /\ lastCall.operations = <<Op(<<"w", "p", "a">>, <<"w", "q", "a">>),
                               Op(<<"w", "p", "d", "a">>, <<"a">>)>>
    /\ lastCall.ret = {Root}

\* C25: a wildcard rule that is not directory-only ignores a file at any
\* depth: a file whose name the rule matches at the root is ignored below
\* directories as well
C25_WildcardAnyDepth ==
    (/\ lastCall.fn = "ShouldIgnore" /\ ~lastCall.isDir
     /\ ~lastCall.pattern.dir /\ HasWildcard(lastCall.pattern.name)
     /\ ShouldIgnore(<<lastCall.pattern>>, <<lastCall.path[Len(lastCall.path)]>>, FALSE))
        => lastCall.ret

\* ExecuteOperation was called and its outcome lies within the paths of
\* the tree
Executed1 == lastCall.fn = "ExecuteOperation" /\ ~lastCall.ret.ovf

\* the source of the call is a symbolic link
SourceIsLink ==
    /\ Lstat(lastCall.fs, lastCall.op.From).err = ""
    /\ LstatNode(lastCall.fs, lastCall.op.From).k = "link"

\* C23: an operation whose source is a dangling symbolic link, its
\* destination absent, is not rejected as source-not-exist and the link is
\* moved
C23_DanglingSourceMoved ==
    (/\ Executed1 /\ SourceIsLink
     /\ Stat(lastCall.fs, lastCall.op.From).err = "ENOENT"
     /\ Lstat(lastCall.fs, lastCall.op.To).err = "ENOENT")
        => /\ lastCall.ret.Error # "ErrSourceNotExist"
           /\ lastCall.ret.Success
           /\ LstatNode(lastCall.ret.fs, lastCall.op.To).k = "link"

\* what the link at the entry e of the tree f denotes: where the system
\* arrives when it walks the target from the directory that holds the link
Denoted(f, e) ==
    Resolve(f, IF f[e].tgt.abs THEN Root ELSE Dir(e), f[e].tgt.segs, TRUE, MaxSymlinkHops)

\* the link was moved: it is at the destination after the call
LinkMoved ==
    /\ Executed1 /\ SourceIsLink /\ lastCall.ret.Success
    /\ Lstat(lastCall.ret.fs, lastCall.op.To).err = ""
    /\ LstatNode(lastCall.ret.fs, lastCall.op.To).k = "link"

\* the moved link denotes what it denoted, an absolute target is kept
SameDenotation ==
    /\ Denoted(lastCall.ret.fs, Lstat(lastCall.ret.fs, lastCall.op.To).path)
         = Denoted(lastCall.fs, Lstat(lastCall.fs, lastCall.op.From).path)
    /\ LstatNode(lastCall.fs, lastCall.op.From).tgt.abs =>
         LstatNode(lastCall.ret.fs, lastCall.op.To).tgt
           = LstatNode(lastCall.fs, lastCall.op.From).tgt

NoLinkedDirectory ==
    /\ Lstat(lastCall.fs, lastCall.op.From).path = lastCall.op.From
    /\ Lstat(lastCall.ret.fs, lastCall.op.To).path = lastCall.op.To

SkippedWith(e) == lastCall.ret.Error = e /\ ~lastCall.ret.Success /\ lastCall.ret.fs = lastCall.fs

C27_FailedLeavesTree ==
    (Executed1 /\ ~lastCall.ret.Success) => lastCall.ret.fs = lastCall.fs

\* the directories above the destination, the root left out
Ancestors(p) == {SubSeq(p, 1, n) : n \in 1..(Len(p) - 1)}

\* the directory q was absent before the call and is there after it
CreatedByCall(q) ==
    /\ Stat(lastCall.fs, q).err = "ENOENT"
    /\ Stat(lastCall.ret.fs, q).err = "" /\ StatNode(lastCall.ret.fs, q).k = "dir"

\* C28: CreatedDirs holds exactly the directories above the destination
\* that did not exist before the operation and exist after it, each once,
\* an outer directory before the directories inside it
C28_CreatedDirsOutermostFirst ==
    Executed1 =>
        /\ \A q \in Ancestors(lastCall.op.To) :
              CreatedByCall(q) <=>
                  \E i \in DOMAIN lastCall.ret.CreatedDirs : lastCall.ret.CreatedDirs[i] = q
        /\ \A i \in DOMAIN lastCall.ret.CreatedDirs :
              /\ lastCall.ret.CreatedDirs[i] \in Ancestors(lastCall.op.To)
              /\ \A j \in DOMAIN lastCall.ret.CreatedDirs :
                    i < j => Len(lastCall.ret.CreatedDirs[i]) < Len(lastCall.ret.CreatedDirs[j])

C28_Witness ==
    /\ Executed1 /\ lastCall.ret.Success
    /\ Len(lastCall.ret.CreatedDirs) = 2
    /\ Stat(lastCall.fs, BasePath).err = ""

\* creating the link at the destination failed
NewLinkFailed ==
    lastCall.ret.Error \in {"failed to create new symlink",
                            "failed to create new symlink and restore original"}

CountFails(f) ==
    \E d \in determineVerificationScope(lastCall.operations, lastCall.basePath) :
        CountFiles(f, d).err # ""

\* C30: when the count before the batch fails, ExecuteOperations returns an
\* error with VerificationError set, no operation result and the tree as it
\* was; otherwise it returns no error and a result for every operation,
\* with VerificationError set exactly when the count after the batch fails
C30_CountFailures ==
    (lastCall.fn = "ExecuteOperations" /\ ~lastCall.ret.ovf) =>
        IF CountFails(lastCall.fs)
          THEN /\ lastCall.ret.err
               /\ lastCall.ret.result.VerificationError
               /\ lastCall.ret.result.Operations = <<>>
               /\ lastCall.ret.fs = lastCall.fs
          ELSE /\ ~lastCall.ret.err
               /\ Len(lastCall.ret.result.Operations) = Len(lastCall.operations)
               /\ lastCall.ret.result.SuccessCount + lastCall.ret.result.FailCount
                    = Len(lastCall.operations)
               /\ lastCall.ret.result.VerificationError <=> CountFails(lastCall.ret.fs)

C30_Witness ==
    /\ lastCall.fn = "ExecuteOperations" /\ ~lastCall.ret.ovf
    /\ ~CountFails(lastCall.fs) /\ CountFails(lastCall.ret.fs)
    /\ lastCall.ret.result.VerificationError /\ ~lastCall.ret.err
    /\ lastCall.ret.result.SuccessCount > 0

\* the rows of the call that lie at the directory or below it
Under(rows, D) == {q \in rows : IsPrefix(Clean(D), q)}

\* C20: GetIndexedFilesInDirectory returns exactly the rows whose path is
\* the directory or starts with the directory followed by the separator
C20_ExactlyRowsUnder ==
    lastCall.fn = "GetIndexedFilesInDirectory" =>
        lastCall.ret = Under(lastCall.rows, lastCall.dirPath)

====
